---- MODULE Spec2Model ----
(***************************************************************************)
(* A model of the paper-reader reference scripts:                          *)
(*   chunk_paper.py    text extractor, section detector, text packer       *)
(*   analyze_code.py   directory scanner, file classifier, code packer     *)
(*   download_paper.py URL normaliser, PDF download with bounded retries   *)
(*                                                                         *)
(* Strings are sequences of one-character strings, so that len(), slices,  *)
(* split(), strip() and the regular expressions are computed on characters *)
(* as the Python code computes them.  Offsets into a text are 0-based as   *)
(* in Python; sequence indices are 1-based.                                *)
(***************************************************************************)
EXTENDS Integers, Sequences, FiniteSets, TLC

VARIABLES
    prog,             \* which script runs: "chunk_paper" or "analyze_code"
    pc,               \* position in main()
    max_tokens,       \* args.max_tokens
    exit_code,        \* "running", "exit0", "exit1", or "KeyError" (uncaught)
    written,          \* files written so far, in order
    manifest,         \* the manifest written, or NoManifest
    chunks,           \* the packer's chunk list
    i,                \* loop index of the packer (1-based)
    \* chunk_paper.py
    pages,            \* page.get_text() of every page of the PDF
    text,             \* extract_text_from_pdf's result
    sections,         \* identify_sections' result
    section_ranges,   \* split_into_chunks' section_ranges
    current_chunk,    \* split_into_chunks' accumulator
    \* analyze_code.py
    entries,          \* the files of the source directory
    unreadable,       \* names that fail to open in generate_chunks
    warnings,         \* paths named in a printed "[WARN]" line
    files,            \* CodeAnalyzer.files after scan_directory
    gen_chunk,        \* generate_chunks' current_chunk (list of file_content)
    current_tokens,   \* generate_chunks' current_tokens
    current_priority, \* generate_chunks' current_priority
    chunk_index,      \* generate_chunks' chunk_index
    \* a call of one function on its own
    call_filename,    \* get_priority's argument
    returned,         \* the value the call returned, or NoKey before it returns
    \* download_paper.py
    argv,             \* sys.argv[1:] of main(), or the url and output_path
                      \* arguments of a direct call of download_pdf
    output_file,      \* output_file of download_pdf, relative to the cwd
    max_retries,      \* the argument max_retries
    attempt,          \* the loop variable; 0 before the loop
    outcome,          \* what the request of the current attempt came to
    last_error,       \* last_error
    events,           \* the requests made and the sleeps taken, in order
    result,           \* the tuple returned, or NoResult
    \* the script run a second time
    previous_run      \* what the run before this one was given and produced,
                      \* or NoRun in a first run

vars == <<prog, pc, max_tokens, exit_code, written, manifest, chunks, i,
          pages, text, sections, section_ranges, current_chunk,
          entries, unreadable, warnings, files, gen_chunk, current_tokens,
          current_priority, chunk_index, call_filename, returned,
          argv, output_file,
          max_retries, attempt, outcome, last_error, events, result,
          previous_run>>

download_vars == <<argv, output_file,
                   max_retries, attempt, outcome, last_error, events, result>>
call_vars == <<call_filename, returned, download_vars>>

----------------------------------------------------------------------------
(* Bounds of the model *)

MaxPages == 3
MaxFiles == 3
MaxBudget == 12
MaxReadFailures == 1
MaxRetries == 4

----------------------------------------------------------------------------
(* Characters and Python string primitives *)

UpperChars == <<"A", "B", "C", "D", "E", "F", "G", "H", "I", "J", "K", "L", "M", "N", "O", "P", "Q", "R", "S", "T", "U", "V", "W", "X", "Y", "Z">>
LowerChars == <<"a", "b", "c", "d", "e", "f", "g", "h", "i", "j", "k", "l", "m", "n", "o", "p", "q", "r", "s", "t", "u", "v", "w", "x", "y", "z">>
DigitChars == <<"0", "1", "2", "3", "4", "5", "6", "7", "8", "9">>

\* The characters of the model in code-point order (str comparison).
CodePointOrder ==
    <<"\t", "\n", " ", "#", ".", "/">> \o DigitChars \o <<":", "=">> \o UpperChars \o <<"[", "]", "_">> \o LowerChars

InSeq(c, s) == \E k \in 1..Len(s) : s[k] = c

IndexIn(c, s) == CHOOSE k \in 1..Len(s) : s[k] = c

IsSpace(c) == c \in {" ", "\n", "\t"}
IsDigit(c) == InSeq(c, DigitChars)
IsWordChar(c) == InSeq(c, UpperChars) \/ InSeq(c, LowerChars) \/ IsDigit(c) \/ c = "_"

LowerOf == [c \in {UpperChars[k] : k \in 1..26} |->
               LowerChars[IndexIn(c, UpperChars)]]

LowerChar(c) == IF c \in DOMAIN LowerOf THEN LowerOf[c] ELSE c

\* str.lower()
lower(s) == [k \in 1..Len(s) |-> LowerChar(s[k])]

MinOf(S) == CHOOSE x \in S : \A y \in S : x <= y

\* s[a:b] for 0 <= a <= b <= len(s)
Slice(s, a, b) == SubSeq(s, a + 1, b)

Rep(c, n) == [k \in 1..n |-> c]

\* The first q in a..b with P(q), or b + 1; the last one, or a - 1.
FirstIn(a, b, P(_)) ==
    IF \E q \in a..b : P(q)
    THEN CHOOSE q \in a..b : P(q) /\ \A r \in a..(q - 1) : ~P(r)
    ELSE b + 1

LastIn(a, b, P(_)) ==
    IF \E q \in a..b : P(q)
    THEN CHOOSE q \in a..b : P(q) /\ \A r \in (q + 1)..b : ~P(r)
    ELSE a - 1

\* First position at or after p (1-based) holding no whitespace, or len + 1.
SkipSpaces(s, p) == LET P(q) == ~IsSpace(s[q]) IN FirstIn(p, Len(s), P)

\* Last position at or before p holding no whitespace, or 0.
SkipSpacesBack(s, p) == LET P(q) == ~IsSpace(s[q]) IN LastIn(1, p, P)

\* First position at or after p holding no digit, or len + 1.
SkipDigits(s, p) == LET P(q) == ~IsDigit(s[q]) IN FirstIn(p, Len(s), P)

\* str.strip()
strip(s) == SubSeq(s, SkipSpaces(s, 1), SkipSpacesBack(s, Len(s)))

\* str.find("\n\n", start); -1 when absent
FindParaBreak(s, start) ==
    LET P(k) == s[k + 1] = "\n" /\ s[k + 2] = "\n"
        k == FirstIn(start, Len(s) - 2, P)
    IN  IF k > Len(s) - 2 THEN 0 - 1 ELSE k

\* text.split('\n\n'): leftmost, non-overlapping separators
RECURSIVE SplitParagraphs(_)
SplitParagraphs(s) ==
    LET p == FindParaBreak(s, 0)
    IN  IF p < 0 THEN <<s>>
        ELSE <<Slice(s, 0, p)>> \o SplitParagraphs(Slice(s, p + 2, Len(s)))

\* str(n) for n >= 0
RECURSIVE Decimal(_)
Decimal(n) ==
    IF n < 10 THEN <<DigitChars[n + 1]>>
    ELSE Decimal(n \div 10) \o <<DigitChars[(n % 10) + 1]>>

\* a < b for str
RECURSIVE StrLess(_, _)
StrLess(a, b) ==
    IF b = <<>> THEN FALSE
    ELSE IF a = <<>> THEN TRUE
    ELSE IF a[1] = b[1] THEN StrLess(Tail(a), Tail(b))
    ELSE IndexIn(a[1], CodePointOrder) < IndexIn(b[1], CodePointOrder)

\* A dictionary key that is absent (dict.get falls back to its default,
\* dict[key] raises KeyError).
NoKey == 0 - 1

----------------------------------------------------------------------------
(* chunk_paper.py: tables *)

\* Every alternative of the six SECTION_PATTERNS, reduced to the shortest
\* prefix that makes re.match succeed (an optional tail such as (?:ology)?
\* never decides a prefix match).  "ws+" stands for \s+.
SECTION_PATTERNS == <<
    { <<"a", "b", "s", "t", "r", "a", "c", "t">>, <<"i", "n", "t", "r", "o", "d", "u", "c", "t", "i", "o", "n">>, <<"r", "e", "l", "a", "t", "e", "d">> \o <<"ws+">> \o <<"w", "o", "r", "k">>,
      <<"b", "a", "c", "k", "g", "r", "o", "u", "n", "d">> },
    { <<"m", "e", "t", "h", "o", "d">>, <<"a", "p", "p", "r", "o", "a", "c", "h">>, <<"p", "r", "o", "p", "o", "s", "e", "d">> \o <<"ws+">> \o <<"m", "e", "t", "h", "o", "d">>,
      <<"p", "r", "o", "p", "o", "s", "e", "d">> \o <<"ws+">> \o <<"f", "r", "a", "m", "e", "w", "o", "r", "k">>,
      <<"p", "r", "o", "p", "o", "s", "e", "d">> \o <<"ws+">> \o <<"m", "o", "d", "e", "l">>, <<"f", "r", "a", "m", "e", "w", "o", "r", "k">>, <<"m", "o", "d", "e", "l">> },
    { <<"e", "x", "p", "e", "r", "i", "m", "e", "n", "t">>, <<"r", "e", "s", "u", "l", "t", "s">>, <<"e", "v", "a", "l", "u", "a", "t", "i", "o", "n">> },
    { <<"d", "i", "s", "c", "u", "s", "s", "i", "o", "n">>, <<"a", "n", "a", "l", "y", "s", "i", "s">>, <<"a", "b", "l", "a", "t", "i", "o", "n">> },
    { <<"c", "o", "n", "c", "l", "u", "s", "i", "o", "n">>, <<"s", "u", "m", "m", "a", "r", "y">>, <<"f", "u", "t", "u", "r", "e">> \o <<"ws+">> \o <<"w", "o", "r", "k">> },
    { <<"a", "p", "p", "e", "n", "d", "i", "x">>, <<"s", "u", "p", "p", "l", "e", "m", "e", "n", "t", "a", "r", "y">>, <<"r", "e", "f", "e", "r", "e", "n", "c", "e", "s">>, <<"a", "c", "k", "n", "o", "w", "l", "e", "d", "g", "m", "e", "n", "t">>,
      <<"a", "c", "k", "n", "o", "w", "l", "e", "d", "g", "e", "m", "e", "n", "t">> } >>

SECTION_PRIORITY == {
    <<<<"a", "b", "s", "t", "r", "a", "c", "t">>, 0>>, <<<<"c", "o", "n", "c", "l", "u", "s", "i", "o", "n">>, 0>>, <<<<"i", "n", "t", "r", "o", "d", "u", "c", "t", "i", "o", "n">>, 2>>,
    <<<<"m", "e", "t", "h", "o", "d">>, 1>>, <<<<"m", "e", "t", "h", "o", "d", "o", "l", "o", "g", "y">>, 1>>, <<<<"a", "p", "p", "r", "o", "a", "c", "h">>, 1>>,
    <<<<"e", "x", "p", "e", "r", "i", "m", "e", "n", "t">>, 1>>, <<<<"e", "x", "p", "e", "r", "i", "m", "e", "n", "t", "s">>, 1>>, <<<<"r", "e", "s", "u", "l", "t", "s">>, 1>>,
    <<<<"e", "v", "a", "l", "u", "a", "t", "i", "o", "n">>, 1>>, <<<<"r", "e", "l", "a", "t", "e", "d", " ", "w", "o", "r", "k">>, 2>>, <<<<"b", "a", "c", "k", "g", "r", "o", "u", "n", "d">>, 2>>,
    <<<<"d", "i", "s", "c", "u", "s", "s", "i", "o", "n">>, 2>>, <<<<"a", "n", "a", "l", "y", "s", "i", "s">>, 2>>, <<<<"a", "b", "l", "a", "t", "i", "o", "n">>, 2>>,
    <<<<"a", "p", "p", "e", "n", "d", "i", "x">>, 3>>, <<<<"s", "u", "p", "p", "l", "e", "m", "e", "n", "t", "a", "r", "y">>, 3>>, <<<<"r", "e", "f", "e", "r", "e", "n", "c", "e", "s">>, 4>>,
    <<<<"a", "c", "k", "n", "o", "w", "l", "e", "d", "g", "e", "m", "e", "n", "t", "s">>, 4>> }

\* The default of SECTION_PRIORITY.get(..., 2) and of chunk.get('priority', 2)
DefaultSectionPriority == 2

\* len(line) > 100: not a header
MaxHeadingLen == 100

\* SECTION_PRIORITY.get(key, 2)
SectionPriorityGet(key) ==
    IF \E e \in SECTION_PRIORITY : e[1] = key
    THEN (CHOOSE e \in SECTION_PRIORITY : e[1] = key)[2]
    ELSE DefaultSectionPriority

----------------------------------------------------------------------------
(* chunk_paper.py: functions *)

estimate_tokens(t) == Len(t) \div 4

\* "\n\n".join(parts)
RECURSIVE JoinParts(_)
JoinParts(parts) ==
    IF parts = <<>> THEN <<>>
    ELSE IF Len(parts) = 1 THEN parts[1]
    ELSE parts[1] \o <<"\n", "\n">> \o JoinParts(Tail(parts))

extract_text_from_pdf(pp) ==
    JoinParts([k \in 1..Len(pp) |-> <<"[", "P", "A", "G", "E", " ">> \o Decimal(k) \o <<"]", "\n">> \o pp[k]])

\* The keyword alternative kw, from its k-th token, matches the lower-cased
\* line s at position p.
RECURSIVE MatchKeyword(_, _, _, _)
MatchKeyword(kw, k, s, p) ==
    IF k > Len(kw) THEN TRUE
    ELSE IF kw[k] = "ws+"
         THEN /\ p <= Len(s)
              /\ IsSpace(s[p])
              /\ MatchKeyword(kw, k + 1, s, SkipSpaces(s, p))
         ELSE /\ p <= Len(s)
              /\ s[p] = kw[k]
              /\ MatchKeyword(kw, k + 1, s, p + 1)

\* First position at or after p holding no "#", or len + 1.
SkipHashes(s, p) == LET P(q) == s[q] # "#" IN FirstIn(p, Len(s), P)

\* Position after the prefix ^(?:#{1,3}\s*)?(\d+\.?\s+)? of a line, or 0 when
\* no keyword can follow.  Keywords start with a letter, so each optional
\* group is either taken whole or the match fails.
HeadingPrefixEnd(line) ==
    LET h == SkipHashes(line, 1) - 1
        p1 == IF h = 0 THEN 1 ELSE SkipSpaces(line, h + 1)
        d == SkipDigits(line, p1)
        dot == IF d <= Len(line) /\ line[d] = "." THEN d + 1 ELSE d
        p2 == SkipSpaces(line, dot)
    IN  IF h > 3 THEN 0
        ELSE IF d = p1 THEN p1
        ELSE IF p2 > dot THEN p2
        ELSE 0

\* re.match(pattern, line, re.IGNORECASE) for some pattern of
\* SECTION_PATTERNS: the patterns share their prefix, and ignoring case is
\* matching the lower-cased line against the lower-case keywords.
MatchSectionPatterns(line) ==
    LET p == HeadingPrefixEnd(line)
        low == lower(line)
    IN  /\ p > 0
        /\ \E k \in 1..Len(SECTION_PATTERNS) :
              \E kw \in SECTION_PATTERNS[k] : MatchKeyword(kw, 1, low, p)

\* re.sub(r'^\d+\.?\s*', '', s)
StripNumbering(s) ==
    LET d == SkipDigits(s, 1)
        dot == IF d <= Len(s) /\ s[d] = "." THEN d + 1 ELSE d
        p == SkipSpaces(s, dot)
    IN  IF d = 1 THEN s ELSE SubSeq(s, p, Len(s))

\* re.sub(r'[^\w\s]', '', s), by halves
RECURSIVE StripPunctuation(_)
StripPunctuation(s) ==
    IF s = <<>> THEN <<>>
    ELSE IF Len(s) = 1
         THEN IF IsWordChar(s[1]) \/ IsSpace(s[1]) THEN s ELSE <<>>
         ELSE StripPunctuation(SubSeq(s, 1, Len(s) \div 2))
              \o StripPunctuation(SubSeq(s, (Len(s) \div 2) + 1, Len(s)))

\* The two re.sub lines of identify_sections
NormalizeHeading(line) == strip(StripPunctuation(StripNumbering(lower(line))))

\* First position at or after p holding whitespace, or len + 1.
SkipWord(s, p) == LET P(q) == IsSpace(s[q]) IN FirstIn(p, Len(s), P)

\* normalized.split()[0] if normalized else ''
FirstWord(s) ==
    LET a == SkipSpaces(s, 1)
    IN  SubSeq(s, a, SkipWord(s, a) - 1)

\* text.find('\n', line_start), or len(text) when there is none
LineEnd(t, s) == LET P(q) == t[q + 1] = "\n" IN FirstIn(s, Len(t) - 1, P)

\* "if not line" alone: the length of the line is not looked at
IsHeadingOfAnyLength(line) ==
    /\ line # <<>>
    /\ MatchSectionPatterns(line)

IsHeading(line) ==
    /\ line # <<>>
    /\ Len(line) <= MaxHeadingLen
    /\ MatchSectionPatterns(line)

\* The loop of identify_sections from the line that starts at offset s.
RECURSIVE ScanLines(_, _)
ScanLines(t, s) ==
    IF s >= Len(t) THEN <<>>
    ELSE LET e == LineEnd(t, s)
             line == strip(Slice(t, s, e))
             rest == ScanLines(t, e + 1)
         IN  IF IsHeading(line)
             THEN <<[start |-> s, name |-> line,
                     normalized |-> NormalizeHeading(line)]>> \o rest
             ELSE rest

identify_sections(t) == ScanLines(t, 0)

\* section_ranges of split_into_chunks
SectionRanges(t, secs) ==
    [k \in 1..Len(secs) |->
        [start |-> secs[k].start,
         end |-> IF k + 1 <= Len(secs) THEN secs[k + 1].start ELSE Len(t),
         name |-> secs[k].name,
         normalized |-> secs[k].normalized,
         priority |-> SectionPriorityGet(FirstWord(secs[k].normalized))]]

SectionText(t, r) == Slice(t, r.start, r.end)

\* One chunk dictionary of split_by_tokens.  It has no 'priority', 'index' or
\* 'total' key.  units and pieces are auxiliary: the section indices the
\* chunk holds, and the number of paragraphs a split chunk holds.
SplitChunk(section_name, current_text, cur_tokens, n) ==
    [sections |-> <<section_name>>, text |-> strip(current_text),
     priority |-> NoKey, tokens |-> cur_tokens, index |-> NoKey,
     total |-> NoKey, units |-> <<>>, pieces |-> n]

\* if current_tokens + para_tokens > max_tokens and current_text
ParagraphOverflows(cur_tokens, para_tokens, max, current_text) ==
    cur_tokens + para_tokens > max /\ current_text # <<>>

\* if current_text.strip(): the last chunk of split_by_tokens
KeepLastSplitChunk(current_text) == strip(current_text) # <<>>

\* The loop of split_by_tokens from the k-th paragraph, then its last chunk.
RECURSIVE SplitLoop(_, _, _, _, _, _, _, _)
SplitLoop(paragraphs, k, max, section_name, current_text, cur_tokens, n, acc) ==
    IF k > Len(paragraphs)
    THEN IF KeepLastSplitChunk(current_text)
         THEN Append(acc, SplitChunk(section_name, current_text, cur_tokens, n))
         ELSE acc
    ELSE LET para == paragraphs[k]
             para_tokens == estimate_tokens(para)
             flush == ParagraphOverflows(cur_tokens, para_tokens, max, current_text)
         IN  SplitLoop(paragraphs, k + 1, max, section_name,
                       (IF flush THEN <<>> ELSE current_text) \o para \o <<"\n", "\n">>,
                       (IF flush THEN 0 ELSE cur_tokens) + para_tokens,
                       (IF flush THEN 0 ELSE n) + 1,
                       IF flush
                       THEN Append(acc, SplitChunk(section_name, current_text,
                                                   cur_tokens, n))
                       ELSE acc)

split_by_tokens(t, max, section_name) ==
    SplitLoop(SplitParagraphs(t), 1, max, section_name, <<>>, 0, 0, <<>>)

\* {'sections': [], 'text': '', 'priority': 999, 'tokens': 0}
EmptyChunk ==
    [sections |-> <<>>, text |-> <<>>, priority |-> 999, tokens |-> 0,
     index |-> NoKey, total |-> NoKey, units |-> <<>>, pieces |-> 0]

\* The oversized test with >= for >.
SectionOversizedAtLimit(section_tokens, max) == section_tokens >= max

\* if section_tokens > max_tokens: the section goes to split_by_tokens
SectionOversized(section_tokens, max) == section_tokens > max

\* The overflow test made on the accumulator alone, before the section is
\* counted in.
SectionOverflowsBeforeAdding(cur, section_tokens, max) ==
    cur.tokens > max /\ cur.text # <<>>

\* if current_chunk['tokens'] + section_tokens > max_tokens and current_chunk['text']
SectionOverflows(cur, section_tokens, max) ==
    cur.tokens + section_tokens > max /\ cur.text # <<>>

\* min(current_chunk['priority'], section['priority'])
MergePriority(a, b) == IF a <= b THEN a ELSE b

\* "Add section to current chunk" with = for += on the tokens
AddSectionTokensOverwritten(cur, k, r, section_text) ==
    [cur EXCEPT !.sections = Append(@, r.name),
                !.text = @ \o section_text \o <<"\n", "\n">>,
                !.priority = MergePriority(@, r.priority),
                !.tokens = estimate_tokens(section_text),
                !.units = Append(@, k)]

\* The four "Add section to current chunk" lines
AddSection(cur, k, r, section_text) ==
    [cur EXCEPT !.sections = Append(@, r.name),
                !.text = @ \o section_text \o <<"\n", "\n">>,
                !.priority = MergePriority(@, r.priority),
                !.tokens = @ + estimate_tokens(section_text),
                !.units = Append(@, k)]

\* sub_chunks as split_by_tokens returns them: sc['priority'] is not set
SubChunksUntagged(k, r, section_text, max) ==
    LET sub == split_by_tokens(section_text, max, r.name)
    IN  [j \in 1..Len(sub) |->
            [sub[j] EXCEPT !.sections = <<r.name>>, !.units = <<k>>]]

\* sub_chunks with sc['priority'] and sc['sections'] set
SubChunks(k, r, section_text, max) ==
    LET sub == split_by_tokens(section_text, max, r.name)
    IN  [j \in 1..Len(sub) |->
            [sub[j] EXCEPT !.priority = r.priority, !.sections = <<r.name>>,
                           !.units = <<k>>]]

\* The chunk list left in packing order: no sort
SortByPriorityOmitted(cs) == cs

\* list.sort(key=lambda x: x['priority']): stable, ascending
RECURSIVE InsertByPriority(_, _)
InsertByPriority(sorted, c) ==
    IF sorted = <<>> THEN <<c>>
    ELSE IF sorted[1].priority <= c.priority
         THEN <<sorted[1]>> \o InsertByPriority(Tail(sorted), c)
         ELSE <<c>> \o sorted

RECURSIVE SortByPriority(_)
SortByPriority(cs) ==
    IF cs = <<>> THEN <<>>
    ELSE InsertByPriority(SortByPriority(SubSeq(cs, 1, Len(cs) - 1)), cs[Len(cs)])

\* chunk['index'] = i; chunk['total'] = len(chunks)
AddIndices(cs) ==
    [k \in 1..Len(cs) |-> [cs[k] EXCEPT !.index = k - 1, !.total = Len(cs)]]

\* The tail of split_into_chunks without its "Add last chunk".
FinishChunksWithoutLast(cs, cur) == AddIndices(SortByPriority(cs))

\* The tail of split_into_chunks: last chunk, sort, indices
FinishChunks(cs, cur) ==
    AddIndices(SortByPriority(IF cur.text # <<>> THEN Append(cs, cur) ELSE cs))

\* f"{n:02d}"
Pad2(n) == IF n < 10 THEN <<"0">> \o Decimal(n) ELSE Decimal(n)

\* ['P0', 'P1', 'P2', 'P3', 'P4'][min(chunk.get('priority', 2), 4)]
PriorityLabel(c) ==
    LET p == IF c.priority = NoKey THEN DefaultSectionPriority ELSE c.priority
    IN  <<"P">> \o Decimal(IF p < 4 THEN p ELSE 4)

\* Path(args.pdf_path).stem of the run
BaseName == <<"p", "a", "p", "e", "r">>

\* f"{base_name}_chunk{chunk['index']:02d}_{priority_label}.txt"
PaperChunkName(c) ==
    BaseName \o <<"_", "c", "h", "u", "n", "k">> \o Pad2(c.index) \o <<"_">> \o PriorityLabel(c) \o <<".", "t", "x", "t">>

PaperManifestName == BaseName \o <<"_", "m", "a", "n", "i", "f", "e", "s", "t", ".", "j", "s", "o", "n">>

\* The manifest dictionary of save_chunks
PaperManifest(cs) ==
    [source |-> BaseName,
     total_chunks |-> Len(cs),
     chunks |-> [k \in 1..Len(cs) |->
                    [file |-> PaperChunkName(cs[k]), index |-> cs[k].index,
                     priority |-> PriorityLabel(cs[k]),
                     sections |-> cs[k].sections, tokens |-> cs[k].tokens]]]

\* chunk['index'] and chunk['total'] raise KeyError when absent
SaveRaisesKeyError(cs) ==
    \E k \in 1..Len(cs) : cs[k].index = NoKey \/ cs[k].total = NoKey

\* saved_files of save_chunks
PaperSavedFiles(cs) ==
    [k \in 1..Len(cs) |-> PaperChunkName(cs[k])] \o <<PaperManifestName>>

----------------------------------------------------------------------------
(* analyze_code.py: tables *)

\* Regular expressions as token sequences: a literal character, an optional
\* literal character (c?), .* and $.
Lit(str) == [k \in 1..Len(str) |-> <<"lit", str[k]>>]
Opt(c) == << <<"opt", c>> >>
AnyRun == << <<"any", "">> >>
AtEnd == << <<"end", "">> >>

FILE_PRIORITY == <<
    [priority |-> 0,
     patterns |-> << Lit(<<"m", "o", "d", "e", "l", "i", "n", "g", "_">>) \o AnyRun \o Lit(<<".", "p", "y">>) \o AtEnd,
                     Lit(<<"m", "o", "d", "e", "l", ".", "p", "y">>) \o AtEnd,
                     Lit(<<"m", "o", "d", "e", "l", "s", ".", "p", "y">>) \o AtEnd >>],
    [priority |-> 1,
     patterns |-> << Lit(<<"c", "o", "n", "f", "i", "g">>) \o AnyRun \o Lit(<<".", "p", "y">>) \o AtEnd,
                     Lit(<<"a", "t", "t", "e", "n", "t", "i", "o", "n">>) \o AnyRun \o Lit(<<".", "p", "y">>) \o AtEnd,
                     Lit(<<"t", "r", "a", "n", "s", "f", "o", "r", "m", "e", "r">>) \o AnyRun \o Lit(<<".", "p", "y">>) \o AtEnd >>],
    [priority |-> 2,
     patterns |-> << Lit(<<"l", "a", "y", "e", "r">>) \o Opt("s") \o Lit(<<".", "p", "y">>) \o AtEnd,
                     Lit(<<"m", "o", "d", "u", "l", "e">>) \o Opt("s") \o Lit(<<".", "p", "y">>) \o AtEnd,
                     Lit(<<"e", "m", "b", "e", "d", "d", "i", "n", "g">>) \o Opt("s") \o Lit(<<".", "p", "y">>) \o AtEnd >>],
    [priority |-> 3,
     patterns |-> << Lit(<<"t", "r", "a", "i", "n">>) \o AnyRun \o Lit(<<".", "p", "y">>) \o AtEnd,
                     AnyRun \o Lit(<<"_", "u", "t", "i", "l", "s", ".", "p", "y">>) \o AtEnd,
                     Lit(<<"u", "t", "i", "l", "s", ".", "p", "y">>) \o AtEnd >>] >>

\* return 99  # Default: lowest priority
DefaultFilePriority == 99

SKIP_PATTERNS == <<
    Lit(<<"_", "_", "p", "y", "c", "a", "c", "h", "e", "_", "_">>),
    Lit(<<".", "g", "i", "t">>),
    Lit(<<".", "p", "y", "c">>) \o AtEnd,
    Lit(<<"t", "e", "s", "t", "_">>) \o AnyRun \o Lit(<<".", "p", "y">>) \o AtEnd,
    AnyRun \o Lit(<<"_", "t", "e", "s", "t", ".", "p", "y">>) \o AtEnd,
    Lit(<<"s", "e", "t", "u", "p", ".", "p", "y">>) \o AtEnd,
    Lit(<<"_", "_", "i", "n", "i", "t", "_", "_", ".", "p", "y">>) \o AtEnd >>

----------------------------------------------------------------------------
(* analyze_code.py: functions *)

\* The pattern, from its k-th token, matches s from position p (1-based).
RECURSIVE MatchFrom(_, _, _, _)
MatchFrom(pat, k, s, p) ==
    IF k > Len(pat) THEN TRUE
    ELSE LET tok == pat[k]
         IN  CASE tok[1] = "lit" ->
                    /\ p <= Len(s)
                    /\ s[p] = tok[2]
                    /\ MatchFrom(pat, k + 1, s, p + 1)
               [] tok[1] = "opt" ->
                    \/ /\ p <= Len(s)
                       /\ s[p] = tok[2]
                       /\ MatchFrom(pat, k + 1, s, p + 1)
                    \/ MatchFrom(pat, k + 1, s, p)
               [] tok[1] = "any" ->
                    \E q \in p..(Len(s) + 1) :
                        /\ \A r \in p..(q - 1) : s[r] # "\n"
                        /\ MatchFrom(pat, k + 1, s, q)
               [] tok[1] = "end" ->
                    /\ \/ p = Len(s) + 1
                       \/ p = Len(s) /\ s[p] = "\n"
                    /\ MatchFrom(pat, k + 1, s, p)

\* re.search(pattern, s)
re_search(pat, s) == \E p \in 1..(Len(s) + 1) : MatchFrom(pat, 1, s, p)

should_skip(path) ==
    \E k \in 1..Len(SKIP_PATTERNS) : re_search(SKIP_PATTERNS[k], path)

\* The first tier, in FILE_PRIORITY's order, one of whose patterns matches.
RECURSIVE PriorityFrom(_, _)
PriorityFrom(k, filename) ==
    IF k > Len(FILE_PRIORITY) THEN DefaultFilePriority
    ELSE IF \E j \in 1..Len(FILE_PRIORITY[k].patterns) :
                re_search(FILE_PRIORITY[k].patterns[j], filename)
         THEN FILE_PRIORITY[k].priority
         ELSE PriorityFrom(k + 1, filename)

get_priority(filename) == PriorityFrom(1, filename)

\* filename.endswith('.py')
EndsWithPy(name) ==
    Len(name) >= 3 /\ SubSeq(name, Len(name) - 2, Len(name)) = <<".", "p", "y">>

\* len(source.split('\n'))
CountLines(source) == Cardinality({k \in 1..Len(source) : source[k] = "\n"}) + 1

\* FileInfo of parse_file (classes, functions and imports play no part in
\* packing and are left out); the directory is flat, so the relative path is
\* the file name.
parse_file(e) ==
    [path |-> e.name, priority |-> get_priority(e.name),
     total_lines |-> CountLines(e.source)]

\* parse_file returns None: ast.parse raised SyntaxError
ParseFails(e) == ~e.syntax_ok

\* The body of scan_directory's loop for one file: what it appends to
\* self.files
ScanFile(e) ==
    IF ~EndsWithPy(e.name) THEN <<>>
    ELSE IF should_skip(e.name) THEN <<>>
    ELSE IF ParseFails(e) THEN <<>>
    ELSE <<parse_file(e)>>

\* parse_file is called on the file and prints a warning: print(f"  [WARN] ...")
ScanWarns(e) == EndsWithPy(e.name) /\ ~should_skip(e.name) /\ ParseFails(e)

\* The loop of scan_directory over the files in os.walk's order; scanned[e]
\* is ScanFile(e)
RECURSIVE ScanFiles(_, _)
ScanFiles(order, scanned) ==
    IF order = <<>> THEN <<>>
    ELSE scanned[order[1]] \o ScanFiles(Tail(order), scanned)

\* key=lambda x: (x.priority, x.path): a sorts strictly before b
FileKeyLess(a, b) ==
    \/ a.priority < b.priority
    \/ a.priority = b.priority /\ StrLess(a.path, b.path)

\* self.files.sort(key=...): stable, ascending
RECURSIVE InsertFile(_, _)
InsertFile(sorted, f) ==
    IF sorted = <<>> THEN <<f>>
    ELSE IF ~FileKeyLess(f, sorted[1])
         THEN <<sorted[1]>> \o InsertFile(Tail(sorted), f)
         ELSE <<f>> \o sorted

RECURSIVE SortFiles(_)
SortFiles(fs) ==
    IF fs = <<>> THEN <<>>
    ELSE InsertFile(SortFiles(SubSeq(fs, 1, Len(fs) - 1)), fs[Len(fs)])

scan_directory(order, scanned) == SortFiles(ScanFiles(order, scanned))

\* int(len(text) * TOKENS_PER_CHAR) with TOKENS_PER_CHAR = 0.25
code_estimate_tokens(t) == Len(t) \div 4

\* f"# File: {path}\n# Priority: P{priority}\n# Lines: {total_lines}\n\n{source}"
FileContent(f, source) ==
    <<"#", " ", "F", "i", "l", "e", ":", " ">> \o f.path \o <<"\n", "#", " ", "P", "r", "i", "o", "r", "i", "t", "y", ":", " ", "P">> \o Decimal(f.priority)
    \o <<"\n", "#", " ", "L", "i", "n", "e", "s", ":", " ">> \o Decimal(f.total_lines) \o <<"\n", "\n">> \o source

\* c.split('\n')[0]
FirstLine(c) == Slice(c, 0, LineEnd(c, 0))

\* s.replace(old, ''): leftmost, non-overlapping occurrences
RECURSIVE RemoveAll(_, _)
RemoveAll(s, old) ==
    IF Len(s) < Len(old) THEN s
    ELSE IF SubSeq(s, 1, Len(old)) = old
         THEN RemoveAll(SubSeq(s, Len(old) + 1, Len(s)), old)
         ELSE <<s[1]>> \o RemoveAll(Tail(s), old)

\* [c.split('\n')[0].replace('# File: ', '') for c in current_chunk]
ChunkFileNames(cur) ==
    [k \in 1..Len(cur) |-> RemoveAll(FirstLine(cur[k]), <<"#", " ", "F", "i", "l", "e", ":", " ">>)]

\* f"chunk_{chunk_index:02d}_P{current_priority}.md"
CodeChunkName(idx, prio) ==
    <<"c", "h", "u", "n", "k", "_">> \o Pad2(idx) \o <<"_", "P">> \o Decimal(prio) \o <<".", "m", "d">>

\* The dictionary appended to chunks by generate_chunks
CodeChunk(idx, prio, cur, tokens) ==
    [index |-> idx, priority |-> prio, filename |-> CodeChunkName(idx, prio),
     files |-> ChunkFileNames(cur), tokens |-> tokens]

\* The overflow test with >= for >.
FileOverflowsAtLimit(cur_tokens, file_tokens, max, cur) ==
    cur_tokens + file_tokens >= max /\ cur # <<>>

\* if current_tokens + file_tokens > self.max_tokens and current_chunk
FileOverflows(cur_tokens, file_tokens, max, cur) ==
    cur_tokens + file_tokens > max /\ cur # <<>>

\* current_priority = file_info.priority
NextPriority(cur_priority, f) == f.priority

\* manifest["priority_distribution"]: "P<priority>" -> number of files
PriorityDistribution(fs) ==
    [label \in {<<"P">> \o Decimal(fs[k].priority) : k \in 1..Len(fs)} |->
        Cardinality({k \in 1..Len(fs) : <<"P">> \o Decimal(fs[k].priority) = label})]

\* The manifest with the number of files written as its number of chunks
CodeManifestCountsFiles(fs, cs) ==
    [total_files |-> Len(fs), total_chunks |-> Len(fs),
     priority_distribution |-> PriorityDistribution(fs), chunks |-> cs]

\* The manifest dictionary of generate_manifest
CodeManifest(fs, cs) ==
    [total_files |-> Len(fs), total_chunks |-> Len(cs),
     priority_distribution |-> PriorityDistribution(fs), chunks |-> cs]

----------------------------------------------------------------------------
(* Inputs *)

\* page.get_text() of the pages a PDF is made of
PagePalette == {
    <<"A", "b", "s", "t", "r", "a", "c", "t", "\n", "x", "x", "x", "x", "x", "x", "x", "\n">>,
    <<"1", ".", " ", "M", "e", "t", "h", "o", "d", "\n", "x", "x", "x", "x", "x", "x", "x", "x", "x", "x", "x", "x", "\n", "\n", "x", "x", "x", "x", "x", "x", "x", "x", "\n">>,
    <<"I", "n", "t", "r", "o", "d", "u", "c", "t", "i", "o", "n", "\n", "x", "x", "x", "x", "\n">>,
    <<"x", "x", "x", "x", " ", "x", "x", "x", "x", "\n", "\n", "\n", "\n", "x", "x", "x", "x", "x", "x", "x", "x", "x", "x", "x", "x", "\n">>,
    <<"R", "e", "s", "u", "l", "t", "s", " ">> \o Rep("x", 100) \o <<"\n">> }

PageSeqs == UNION {[1..n -> PagePalette] : n \in 0..MaxPages}

\* The files a (flat) source directory is made of
FilePalette == {
    [name |-> <<"m", "o", "d", "e", "l", ".", "p", "y">>, source |-> <<"x", " ", "=", " ", "1", "\n">>, syntax_ok |-> TRUE],
    [name |-> <<"m", "o", "d", "e", "l", "s", ".", "p", "y">>, source |-> <<"d", "e", "f", " ", "f", "(", ")", ":", "\n", " ", " ", " ", " ", "r", "e", "t", "u", "r", "n", " ", "1", "\n">>, syntax_ok |-> TRUE],
    [name |-> <<"c", "o", "n", "f", "i", "g", ".", "p", "y">>, source |-> <<>>, syntax_ok |-> TRUE],
    [name |-> <<"m", "a", "i", "n", ".", "p", "y">>, source |-> <<"i", "m", "p", "o", "r", "t", " ", "x", "\n">>, syntax_ok |-> TRUE],
    [name |-> <<"s", "e", "t", "u", "p", ".", "p", "y">>, source |-> <<"x", " ", "=", " ", "1", "\n">>, syntax_ok |-> TRUE],
    [name |-> <<"b", "r", "o", "k", "e", "n", ".", "p", "y">>, source |-> <<"x", " ", "=", " ", "(", "\n">>, syntax_ok |-> FALSE],
    [name |-> <<"n", "o", "t", "e", "s", ".", "t", "x", "t">>, source |-> <<"x", "\n">>, syntax_ok |-> TRUE] }

EntrySets == {S \in SUBSET FilePalette : Cardinality(S) <= MaxFiles}

\* --max-tokens: argparse's type=int takes any integer.  A file's content
\* starts with three header lines, so the sizes of files are some three times
\* the sizes of sections, and so are the budgets tried on them.
Budgets == (0 - 1)..MaxBudget
CodeBudgets == {3 * b : b \in Budgets}

\* The orders in which os.walk may list the files of one directory
WalkOrders(S) ==
    {o \in [1..Cardinality(S) -> S] : \A a, b \in 1..Cardinality(S) : o[a] = o[b] => a = b}

\* ScanFile of every file of the palette
ScannedPalette == [e \in FilePalette |-> ScanFile(e)]

\* The files of the palette for which parse_file prints "[WARN] ..."
WarnedPalette == {e \in FilePalette : ScanWarns(e)}

NoManifest == [none |-> TRUE]

NoResult == [none |-> TRUE]

\* The script has not run before
NoRun == [none |-> TRUE]

\* download_pdf is not called
NoDownload ==
    /\ argv = <<>>
    /\ output_file = <<>>
    /\ max_retries = 0
    /\ attempt = 0
    /\ outcome = "none"
    /\ last_error = "None"
    /\ events = <<>>
    /\ result = NoResult

----------------------------------------------------------------------------
(* Initial state: main() is entered with its arguments parsed *)

Init ==
    /\ prog \in {"chunk_paper", "analyze_code"}
    /\ pc = "main"
    /\ exit_code = "running"
    /\ written = <<>>
    /\ manifest = NoManifest
    /\ chunks = <<>>
    /\ i = 0
    /\ text = <<>>
    /\ sections = <<>>
    /\ current_chunk = EmptyChunk
    /\ files = <<>>
    /\ gen_chunk = <<>>
    /\ current_tokens = 0
    /\ current_priority = 0
    /\ chunk_index = 0
    /\ section_ranges = <<>>
    /\ warnings = {}
    /\ call_filename = <<>>
    /\ returned = NoKey
    /\ NoDownload
    /\ previous_run = NoRun
    /\ \/ /\ prog = "chunk_paper"
          /\ max_tokens \in Budgets
          /\ pages \in PageSeqs
          /\ entries = {}
          /\ unreadable = {}
       \/ /\ prog = "analyze_code"
          /\ max_tokens \in CodeBudgets
          /\ pages = <<>>
          /\ entries \in EntrySets
          /\ unreadable \in {U \in SUBSET {e.name : e \in entries} :
                                Cardinality(U) <= MaxReadFailures}

----------------------------------------------------------------------------
(* chunk_paper.py: main() *)

paper_vars == <<pages, text, sections, section_ranges, current_chunk>>
code_vars == <<entries, unreadable, warnings, files, gen_chunk,
               current_tokens, current_priority, chunk_index>>

\* PyMuPDF is missing or the PDF does not exist: sys.exit(1)
PaperMainFails ==
    /\ prog = "chunk_paper" /\ pc = "main"
    /\ pc' = "exit"
    /\ exit_code' = "exit1"
    /\ UNCHANGED call_vars /\ UNCHANGED previous_run
    /\ UNCHANGED <<prog, max_tokens, written, manifest, chunks, i>>
    /\ UNCHANGED paper_vars /\ UNCHANGED code_vars

\* text = extract_text_from_pdf(...); sections = identify_sections(text)
PaperExtract ==
    /\ prog = "chunk_paper" /\ pc = "main"
    /\ text' = extract_text_from_pdf(pages)
    /\ sections' = identify_sections(text')
    /\ pc' = "split"
    /\ UNCHANGED call_vars /\ UNCHANGED previous_run
    /\ UNCHANGED <<prog, max_tokens, exit_code, written, manifest, chunks, i,
                   pages, section_ranges, current_chunk>>
    /\ UNCHANGED code_vars

\* split_into_chunks: if not sections: return split_by_tokens(text, max_tokens)
SplitNoSections ==
    /\ prog = "chunk_paper" /\ pc = "split"
    /\ sections = <<>>
    /\ chunks' = split_by_tokens(text, max_tokens, <<"c", "o", "n", "t", "e", "n", "t">>)
    /\ pc' = "save"
    /\ UNCHANGED call_vars /\ UNCHANGED previous_run
    /\ UNCHANGED <<prog, max_tokens, exit_code, written, manifest, i>>
    /\ UNCHANGED paper_vars /\ UNCHANGED code_vars

\* split_into_chunks: section_ranges and the empty accumulator
SplitBegin ==
    /\ prog = "chunk_paper" /\ pc = "split"
    /\ sections # <<>>
    /\ section_ranges' = SectionRanges(text, sections)
    /\ current_chunk' = EmptyChunk
    /\ chunks' = <<>>
    /\ i' = 1
    /\ pc' = "pack"
    /\ UNCHANGED call_vars /\ UNCHANGED previous_run
    /\ UNCHANGED <<prog, max_tokens, exit_code, written, manifest,
                   pages, text, sections>>
    /\ UNCHANGED code_vars

\* One iteration of the loop, for a section that alone exceeds the limit
SplitLargeSection ==
    /\ prog = "chunk_paper" /\ pc = "pack"
    /\ i <= Len(section_ranges)
    /\ LET r == section_ranges[i]
           section_text == SectionText(text, r)
       IN  /\ SectionOversized(estimate_tokens(section_text), max_tokens)
           /\ chunks' = (IF current_chunk.text # <<>>
                         THEN Append(chunks, current_chunk) ELSE chunks)
                        \o SubChunks(i, r, section_text, max_tokens)
           /\ current_chunk' = (IF current_chunk.text # <<>>
                                THEN EmptyChunk ELSE current_chunk)
    /\ i' = i + 1
    /\ UNCHANGED call_vars /\ UNCHANGED previous_run
    /\ UNCHANGED <<prog, pc, max_tokens, exit_code, written, manifest,
                   pages, text, sections, section_ranges>>
    /\ UNCHANGED code_vars

\* One iteration of the loop, for a section within the limit
PackSection ==
    /\ prog = "chunk_paper" /\ pc = "pack"
    /\ i <= Len(section_ranges)
    /\ LET r == section_ranges[i]
           section_text == SectionText(text, r)
           flush == SectionOverflows(current_chunk, estimate_tokens(section_text),
                                     max_tokens)
       IN  /\ ~SectionOversized(estimate_tokens(section_text), max_tokens)
           /\ chunks' = (IF flush THEN Append(chunks, current_chunk) ELSE chunks)
           /\ current_chunk' = AddSection(IF flush THEN EmptyChunk ELSE current_chunk,
                                          i, r, section_text)
    /\ i' = i + 1
    /\ UNCHANGED call_vars /\ UNCHANGED previous_run
    /\ UNCHANGED <<prog, pc, max_tokens, exit_code, written, manifest,
                   pages, text, sections, section_ranges>>
    /\ UNCHANGED code_vars

\* After the loop, with a sort that is not stable: chunks of one tier come
\* out in packing order or in the opposite order
SplitFinishUnstableSort ==
    /\ prog = "chunk_paper" /\ pc = "pack"
    /\ i > Len(section_ranges)
    /\ LET all == IF current_chunk.text # <<>>
                  THEN Append(chunks, current_chunk) ELSE chunks
           reversed == [k \in 1..Len(all) |-> all[Len(all) + 1 - k]]
       IN  \E listed \in {all, reversed} :
              chunks' = AddIndices(SortByPriority(listed))
    /\ pc' = "save"
    /\ UNCHANGED call_vars /\ UNCHANGED previous_run
    /\ UNCHANGED <<prog, max_tokens, exit_code, written, manifest, i>>
    /\ UNCHANGED paper_vars /\ UNCHANGED code_vars

\* After the loop: the last chunk, the sort by priority, the indices
SplitFinish ==
    /\ prog = "chunk_paper" /\ pc = "pack"
    /\ i > Len(section_ranges)
    /\ chunks' = FinishChunks(chunks, current_chunk)
    /\ pc' = "save"
    /\ UNCHANGED call_vars /\ UNCHANGED previous_run
    /\ UNCHANGED <<prog, max_tokens, exit_code, written, manifest, i>>
    /\ UNCHANGED paper_vars /\ UNCHANGED code_vars

\* save_chunks raises KeyError at the first chunk without 'index'
SaveChunksKeyError ==
    /\ prog = "chunk_paper" /\ pc = "save"
    /\ SaveRaisesKeyError(chunks)
    /\ LET bad == MinOf({k \in 1..Len(chunks) :
                            chunks[k].index = NoKey \/ chunks[k].total = NoKey})
       IN  written' = [k \in 1..(bad - 1) |-> PaperChunkName(chunks[k])]
    /\ pc' = "exit"
    /\ exit_code' = "KeyError"
    /\ UNCHANGED call_vars /\ UNCHANGED previous_run
    /\ UNCHANGED <<prog, max_tokens, manifest, chunks, i>>
    /\ UNCHANGED paper_vars /\ UNCHANGED code_vars

\* save_chunks writes every chunk and the manifest; main() prints and returns
SaveChunks ==
    /\ prog = "chunk_paper" /\ pc = "save"
    /\ ~SaveRaisesKeyError(chunks)
    /\ written' = PaperSavedFiles(chunks)
    /\ manifest' = PaperManifest(chunks)
    /\ pc' = "exit"
    /\ exit_code' = "exit0"
    /\ UNCHANGED call_vars /\ UNCHANGED previous_run
    /\ UNCHANGED <<prog, max_tokens, chunks, i>>
    /\ UNCHANGED paper_vars /\ UNCHANGED code_vars

----------------------------------------------------------------------------
(* analyze_code.py: main() *)

\* open(filepath) of generate_chunks
ReadSource(path) == (CHOOSE e \in entries : e.name = path).source

\* source_dir does not exist: return 1
CodeMainFails ==
    /\ prog = "analyze_code" /\ pc = "main"
    /\ pc' = "exit"
    /\ exit_code' = "exit1"
    /\ UNCHANGED call_vars /\ UNCHANGED previous_run
    /\ UNCHANGED <<prog, max_tokens, written, manifest, chunks, i>>
    /\ UNCHANGED paper_vars /\ UNCHANGED code_vars

\* files = analyzer.scan_directory()
ScanDirectory ==
    /\ prog = "analyze_code" /\ pc = "main"
    /\ \E order \in WalkOrders(entries) : files' = scan_directory(order, ScannedPalette)
    /\ warnings' = {e.name : e \in entries \cap WarnedPalette}
    /\ pc' = "scanned"
    /\ UNCHANGED call_vars /\ UNCHANGED previous_run
    /\ UNCHANGED <<prog, max_tokens, exit_code, written, manifest, chunks, i,
                   entries, unreadable, gen_chunk, current_tokens,
                   current_priority, chunk_index>>
    /\ UNCHANGED paper_vars

\* if not files: print("No Python files found!"); return 1
MainNoFiles ==
    /\ prog = "analyze_code" /\ pc = "scanned"
    /\ files = <<>>
    /\ pc' = "exit"
    /\ exit_code' = "exit1"
    /\ UNCHANGED call_vars /\ UNCHANGED previous_run
    /\ UNCHANGED <<prog, max_tokens, written, manifest, chunks, i>>
    /\ UNCHANGED paper_vars /\ UNCHANGED code_vars

\* generator.generate_skeleton() writes skeleton.md
GenerateSkeleton ==
    /\ prog = "analyze_code" /\ pc = "scanned"
    /\ files # <<>>
    /\ written' = Append(written, <<"s", "k", "e", "l", "e", "t", "o", "n", ".", "m", "d">>)
    /\ pc' = "mode"
    /\ UNCHANGED call_vars /\ UNCHANGED previous_run
    /\ UNCHANGED <<prog, max_tokens, exit_code, manifest, chunks, i>>
    /\ UNCHANGED paper_vars /\ UNCHANGED code_vars

\* args.mode is "skeleton" or "targeted": return 0
ModeSkeleton ==
    /\ prog = "analyze_code" /\ pc = "mode"
    /\ pc' = "exit"
    /\ exit_code' = "exit0"
    /\ UNCHANGED call_vars /\ UNCHANGED previous_run
    /\ UNCHANGED <<prog, max_tokens, written, manifest, chunks, i>>
    /\ UNCHANGED paper_vars /\ UNCHANGED code_vars

\* args.mode is "full": generate_chunks starts
GenerateChunksBegin ==
    /\ prog = "analyze_code" /\ pc = "mode"
    /\ chunks' = <<>>
    /\ gen_chunk' = <<>>
    /\ current_tokens' = 0
    /\ current_priority' = 0
    /\ chunk_index' = 0
    /\ i' = 1
    /\ pc' = "gen"
    /\ UNCHANGED call_vars /\ UNCHANGED previous_run
    /\ UNCHANGED <<prog, max_tokens, exit_code, written, manifest,
                   entries, unreadable, warnings, files>>
    /\ UNCHANGED paper_vars

\* One iteration of the loop: the file cannot be read (except: continue)
GenerateChunksSkip ==
    /\ prog = "analyze_code" /\ pc = "gen"
    /\ i <= Len(files)
    /\ files[i].path \in unreadable
    /\ i' = i + 1
    /\ UNCHANGED call_vars /\ UNCHANGED previous_run
    /\ UNCHANGED <<prog, pc, max_tokens, exit_code, written, manifest, chunks>>
    /\ UNCHANGED paper_vars /\ UNCHANGED code_vars

\* One iteration of the loop: the file is read and packed
GenerateChunksFile ==
    /\ prog = "analyze_code" /\ pc = "gen"
    /\ i <= Len(files)
    /\ files[i].path \notin unreadable
    /\ LET file_content == FileContent(files[i], ReadSource(files[i].path))
           file_tokens == code_estimate_tokens(file_content)
           flush == FileOverflows(current_tokens, file_tokens, max_tokens, gen_chunk)
       IN  /\ chunks' = (IF flush
                         THEN Append(chunks, CodeChunk(chunk_index, current_priority,
                                                       gen_chunk, current_tokens))
                         ELSE chunks)
           /\ written' = (IF flush
                          THEN Append(written, CodeChunkName(chunk_index, current_priority))
                          ELSE written)
           /\ chunk_index' = (IF flush THEN chunk_index + 1 ELSE chunk_index)
           /\ gen_chunk' = Append(IF flush THEN <<>> ELSE gen_chunk, file_content)
           /\ current_tokens' = (IF flush THEN 0 ELSE current_tokens) + file_tokens
           /\ current_priority' = NextPriority(current_priority, files[i])
    /\ i' = i + 1
    /\ UNCHANGED call_vars /\ UNCHANGED previous_run
    /\ UNCHANGED <<prog, pc, max_tokens, exit_code, manifest,
                   entries, unreadable, warnings, files>>
    /\ UNCHANGED paper_vars

\* After the loop: "Save last chunk"
GenerateChunksFinish ==
    /\ prog = "analyze_code" /\ pc = "gen"
    /\ i > Len(files)
    /\ chunks' = (IF gen_chunk # <<>>
                  THEN Append(chunks, CodeChunk(chunk_index, current_priority,
                                                gen_chunk, current_tokens))
                  ELSE chunks)
    /\ written' = (IF gen_chunk # <<>>
                   THEN Append(written, CodeChunkName(chunk_index, current_priority))
                   ELSE written)
    /\ pc' = "manifest"
    /\ UNCHANGED call_vars /\ UNCHANGED previous_run
    /\ UNCHANGED <<prog, max_tokens, exit_code, manifest, i>>
    /\ UNCHANGED paper_vars /\ UNCHANGED code_vars

\* generator.generate_manifest(chunks); return 0
GenerateManifest ==
    /\ prog = "analyze_code" /\ pc = "manifest"
    /\ manifest' = CodeManifest(files, chunks)
    /\ written' = Append(written, <<"m", "a", "n", "i", "f", "e", "s", "t", ".", "j", "s", "o", "n">>)
    /\ pc' = "exit"
    /\ exit_code' = "exit0"
    /\ UNCHANGED call_vars /\ UNCHANGED previous_run
    /\ UNCHANGED <<prog, max_tokens, chunks, i>>
    /\ UNCHANGED paper_vars /\ UNCHANGED code_vars

----------------------------------------------------------------------------

Next ==
    \/ PaperMainFails
    \/ PaperExtract
    \/ SplitNoSections
    \/ SplitBegin
    \/ SplitLargeSection
    \/ PackSection
    \/ SplitFinish
    \/ SaveChunksKeyError
    \/ SaveChunks
    \/ CodeMainFails
    \/ ScanDirectory
    \/ MainNoFiles
    \/ GenerateSkeleton
    \/ ModeSkeleton
    \/ GenerateChunksBegin
    \/ GenerateChunksSkip
    \/ GenerateChunksFile
    \/ GenerateChunksFinish
    \/ GenerateManifest

Spec == Init /\ [][Next]_vars

----------------------------------------------------------------------------
(* The same script run again on the same input *)

\* What the packer is given: split_into_chunks(text, sections, max_tokens),
\* or self.files, what open() gives for each of them, and self.max_tokens
PackerInput ==
    IF prog = "chunk_paper"
    THEN [units |-> <<text, sections>>, budget |-> max_tokens]
    ELSE [units |-> <<files,
                      [k \in 1..Len(files) |->
                          IF files[k].path \in unreadable
                          THEN [readable |-> FALSE, source |-> <<>>]
                          ELSE [readable |-> TRUE,
                                source |-> ReadSource(files[k].path)]]>>,
          budget |-> max_tokens]

\* What a run that has ended was given and has produced
RunRecord ==
    [input |-> PackerInput, chunks |-> chunks, manifest |-> manifest,
     written |-> written, exit_code |-> exit_code]

\* chunk_paper.py has run its packer and ended; it is started again on the
\* same PDF with the same --max-tokens
PaperRunAgain ==
    /\ prog = "chunk_paper" /\ pc = "exit"
    /\ exit_code # "exit1"
    /\ previous_run = NoRun
    /\ previous_run' = RunRecord
    /\ pc' = "main"
    /\ exit_code' = "running"
    /\ written' = <<>>
    /\ manifest' = NoManifest
    /\ chunks' = <<>>
    /\ i' = 0
    /\ text' = <<>>
    /\ sections' = <<>>
    /\ section_ranges' = <<>>
    /\ current_chunk' = EmptyChunk
    /\ UNCHANGED <<prog, max_tokens, pages>>
    /\ UNCHANGED call_vars /\ UNCHANGED code_vars

\* analyze_code.py has run its packer and ended; it is started again on the
\* same directory, with the same files unreadable and the same --max-tokens
CodeRunAgain ==
    /\ prog = "analyze_code" /\ pc = "exit"
    /\ manifest # NoManifest
    /\ previous_run = NoRun
    /\ previous_run' = RunRecord
    /\ pc' = "main"
    /\ exit_code' = "running"
    /\ written' = <<>>
    /\ manifest' = NoManifest
    /\ chunks' = <<>>
    /\ i' = 0
    /\ warnings' = {}
    /\ files' = <<>>
    /\ gen_chunk' = <<>>
    /\ current_tokens' = 0
    /\ current_priority' = 0
    /\ chunk_index' = 0
    /\ UNCHANGED <<prog, max_tokens, entries, unreadable>>
    /\ UNCHANGED call_vars /\ UNCHANGED paper_vars

RerunNext ==
    \/ Next
    \/ PaperRunAgain
    \/ CodeRunAgain

RerunSpec == Init /\ [][RerunNext]_vars

----------------------------------------------------------------------------
(* CodeAnalyzer.get_priority called on its own *)

\* File names: a prefix, a stem and an extension
NamePrefixes == { <<>>, <<"x">>, <<"r", "a", "n", "d", "o", "m", "_">>, <<"m", "y", "_">> }
NameStems == { <<"m", "o", "d", "e", "l", "i", "n", "g", "_", "b", "e", "r", "t">>, <<"m", "o", "d", "e", "l">>, <<"m", "o", "d", "e", "l", "s">>, <<"c", "o", "n", "f", "i", "g">>,
               <<"c", "o", "n", "f", "i", "g", "_", "u", "t", "i", "l", "s">>, <<"a", "t", "t", "e", "n", "t", "i", "o", "n">>, <<"t", "r", "a", "n", "s", "f", "o", "r", "m", "e", "r">>, <<"l", "a", "y", "e", "r">>,
               <<"l", "a", "y", "e", "r", "s">>, <<"l", "a", "y", "e", "r", "s", "s">>, <<"m", "o", "d", "u", "l", "e">>, <<"e", "m", "b", "e", "d", "d", "i", "n", "g", "s">>,
               <<"t", "r", "a", "i", "n">>, <<"u", "t", "i", "l">>, <<"u", "t", "i", "l", "s">>, <<"m", "a", "i", "n">> }
NameExtensions == { <<".", "p", "y">>, <<".", "p", "y", "c">>, <<".", "t", "x", "t">> }
FileNames ==
    {a \o b \o c : a \in NamePrefixes, b \in NameStems, c \in NameExtensions}

\* No script runs: every variable of main() keeps its value at entry
NoScript ==
    /\ manifest = NoManifest
    /\ chunks = <<>>
    /\ i = 0
    /\ max_tokens = 0
    /\ pages = <<>>
    /\ text = <<>>
    /\ sections = <<>>
    /\ section_ranges = <<>>
    /\ current_chunk = EmptyChunk
    /\ entries = {}
    /\ unreadable = {}
    /\ warnings = {}
    /\ files = <<>>
    /\ gen_chunk = <<>>
    /\ current_tokens = 0
    /\ current_priority = 0
    /\ chunk_index = 0
    /\ previous_run = NoRun

script_vars == <<max_tokens, manifest, chunks, i,
                 pages, text, sections, section_ranges, current_chunk,
                 entries, unreadable, warnings, files, gen_chunk,
                 current_tokens, current_priority, chunk_index, previous_run>>

PriorityInit ==
    /\ prog = "get_priority"
    /\ pc = "call"
    /\ call_filename \in FileNames
    /\ returned = NoKey
    /\ exit_code = "running"
    /\ written = <<>>
    /\ NoScript
    /\ NoDownload

\* get_priority(filename) runs to its return statement
GetPriority ==
    /\ prog = "get_priority"
    /\ pc = "call"
    /\ returned' = get_priority(call_filename)
    /\ pc' = "return"
    /\ UNCHANGED <<prog, call_filename, exit_code, written>>
    /\ UNCHANGED script_vars
    /\ UNCHANGED download_vars

PriorityNext == GetPriority

PrioritySpec == PriorityInit /\ [][PriorityNext]_vars

----------------------------------------------------------------------------
(* download_paper.py *)

\* lit occurs in s at position p (1-based)
HasAt(s, lit, p) ==
    p + Len(lit) - 1 <= Len(s) /\ SubSeq(s, p, p + Len(lit) - 1) = lit

\* lit in s
Contains(s, lit) == \E p \in 1..(Len(s) + 1) : HasAt(s, lit, p)

\* s.endswith(lit)
EndsWith(s, lit) == Len(s) >= Len(lit) /\ HasAt(s, lit, Len(s) - Len(lit) + 1)

\* First position at or after p holding no word character, or len + 1.
SkipWordChars(s, p) == LET P(q) == ~IsWordChar(s[q]) IN FirstIn(p, Len(s), P)

\* re.search(lit + r'(\d+\.\d+)', s): group(1) of the leftmost match, or the
\* empty string when there is none
NumberedIdAfter(s, lit) ==
    LET End(q) == LET a == q + Len(lit)
                      b == SkipDigits(s, a)
                      c == SkipDigits(s, b + 1)
                  IN  IF /\ HasAt(s, lit, q)
                         /\ b > a
                         /\ b <= Len(s)
                         /\ s[b] = "."
                         /\ c > b + 1
                      THEN c ELSE 0
        M(q) == End(q) > 0
        p == FirstIn(1, Len(s), M)
    IN  IF p > Len(s) THEN <<>> ELSE SubSeq(s, p + Len(lit), End(p) - 1)

\* re.search(lit + r'(\w+)', s): group(1) of the leftmost match, or the empty
\* string when there is none
WordIdAfter(s, lit) ==
    LET M(q) == HasAt(s, lit, q) /\ SkipWordChars(s, q + Len(lit)) > q + Len(lit)
        p == FirstIn(1, Len(s), M)
    IN  IF p > Len(s) THEN <<>>
        ELSE SubSeq(s, p + Len(lit), SkipWordChars(s, p + Len(lit)) - 1)

\* The patterns are tried in order: abs, pdf, pdf with extension (the third
\* matches only where the second does).
normalize_arxiv_url(url) ==
    LET abs_id == NumberedIdAfter(url, <<"a", "r", "x", "i", "v", ".", "o", "r", "g", "/", "a", "b", "s", "/">>)
        pdf_id == NumberedIdAfter(url, <<"a", "r", "x", "i", "v", ".", "o", "r", "g", "/", "p", "d", "f", "/">>)
    IN  IF abs_id # <<>> THEN <<"h", "t", "t", "p", "s", ":", "/", "/", "a", "r", "x", "i", "v", ".", "o", "r", "g", "/", "p", "d", "f", "/">> \o abs_id \o <<".", "p", "d", "f">>
        ELSE IF pdf_id # <<>> THEN <<"h", "t", "t", "p", "s", ":", "/", "/", "a", "r", "x", "i", "v", ".", "o", "r", "g", "/", "p", "d", "f", "/">> \o pdf_id \o <<".", "p", "d", "f">>
        ELSE url

\* OpenReview and every other URL are returned as they are, stripped
normalize_url(url) ==
    IF Contains(strip(url), <<"a", "r", "x", "i", "v", ".", "o", "r", "g">>)
    THEN normalize_arxiv_url(strip(url))
    ELSE strip(url)

\* url.split('?')[0].split('/')[-1]
LastPathPart(url) ==
    LET Q(q) == url[q] = "?"
        head == SubSeq(url, 1, FirstIn(1, Len(url), Q) - 1)
        S(q) == head[q] = "/"
    IN  SubSeq(head, LastIn(1, Len(head), S) + 1, Len(head))

extract_filename_from_url(url) ==
    LET arxiv_id == NumberedIdAfter(url, <<"a", "r", "x", "i", "v", ".", "o", "r", "g", "/", "p", "d", "f", "/">>)
        openreview_id == WordIdAfter(url, <<"o", "p", "e", "n", "r", "e", "v", "i", "e", "w", ".", "n", "e", "t", "/", "p", "d", "f", "?", "i", "d", "=">>)
        path == LastPathPart(url)
    IN  IF arxiv_id # <<>> THEN <<"a", "r", "x", "i", "v", "_">> \o arxiv_id \o <<".", "p", "d", "f">>
        ELSE IF openreview_id # <<>>
             THEN <<"o", "p", "e", "n", "r", "e", "v", "i", "e", "w", "_">> \o openreview_id \o <<".", "p", "d", "f">>
        ELSE IF path = <<>> THEN <<"p", "a", "p", "e", "r", ".", "p", "d", "f">>
        ELSE IF EndsWith(path, <<".", "p", "d", "f">>) THEN path
        ELSE path \o <<".", "p", "d", "f">>

\* "Determine output path": the file name of the URL in the cwd when there is
\* no output_path, the same in output_path when that is a directory, and
\* output_path itself otherwise.  Paths are relative to the cwd.
OutputFile(args) ==
    LET name == extract_filename_from_url(normalize_url(args[1].text))
    IN  IF Len(args) < 2 THEN name
        ELSE IF args[2].isdir THEN args[2].text \o <<"/">> \o name
        ELSE args[2].text

\* max_retries: int = 3
DefaultMaxRetries == 3

\* The URLs given
UrlPalette == {
    [text |-> <<"h", "t", "t", "p", "s", ":", "/", "/", "a", "r", "x", "i", "v", ".", "o", "r", "g", "/", "a", "b", "s", "/", "2", "5", "0", "5", ".", "2", "2", "5", "9", "6">>, isdir |-> FALSE],
    [text |-> <<"h", "t", "t", "p", "s", ":", "/", "/", "o", "p", "e", "n", "r", "e", "v", "i", "e", "w", ".", "n", "e", "t", "/", "p", "d", "f", "?", "i", "d", "=", "a", "b", "c">>, isdir |-> FALSE],
    [text |-> <<"h", "t", "t", "p", ":", "/", "/", "h", "/", "p", ".", "p", "d", "f">>, isdir |-> FALSE],
    [text |-> <<"h", "t", "t", "p", ":", "/", "/", "h", "/", "p", "a", "p", "e", "r">>, isdir |-> FALSE],
    [text |-> <<"h", "t", "t", "p", ":", "/", "/", "h", "/">>, isdir |-> FALSE] }

\* The output paths given: a file, and a directory that exists
OutputPathPalette == {
    [text |-> <<"o", "u", "t", ".", "p", "d", "f">>, isdir |-> FALSE],
    [text |-> <<"p", "a", "p", "e", "r", "s">>, isdir |-> TRUE] }

\* A URL, then an output path or none
CallArguments ==
    {<<u>> : u \in UrlPalette}
    \cup {<<u, o>> : u \in UrlPalette, o \in OutputPathPalette}

\* OutputFile of every argument list of the palette
OutputFilePalette == [args \in CallArguments |-> OutputFile(args)]

\* The status codes of the HTTPError a request may raise
HttpErrorCodes == {403, 404, 500, 503}

\* The other exceptions of the try block: urllib.error.URLError,
\* TimeoutError, and any other Exception
OtherErrors == {"URL Error", "Request timed out", "Unexpected error"}

\* The exceptions the "Save to file" lines may raise once the request has
\* delivered a PDF: open() and f.write() raise OSError, of which TimeoutError
\* (errno ETIMEDOUT) is caught by "except TimeoutError" and every other one
\* by "except Exception"; a URLError is raised by urllib only
SaveErrors == {"Request timed out", "Unexpected error"}

\* Whether the exception left output_file opened for writing
WriteFailures(e) == IF e \in SaveErrors THEN BOOLEAN ELSE {FALSE}

\* f"HTTP Error {e.code}: {e.reason}"
HttpErrorText(code) ==
    CASE code = 403 -> "HTTP Error 403"
      [] code = 404 -> "HTTP Error 404"
      [] code = 500 -> "HTTP Error 500"
      [] code = 503 -> "HTTP Error 503"

\* if e.code == 404 ... elif e.code == 403: the two codes that return
HttpErrorReturns(code) == code = 404 \/ code = 403

\* The wait test with <= for <.
ShouldWaitAfterLast(att, max) == att <= max

\* if attempt < max_retries: print and time.sleep(retry_delay)
ShouldWait(att, max) == att < max

\* sys.exit(0 if success else 1)
ExitStatus(res) == IF res.ok THEN "exit0" ELSE "exit1"

\* Either main() is entered with sys.argv, or download_pdf is called with a
\* URL, an output path or none, and max_retries
DownloadInit ==
    /\ pc = "main"
    /\ \/ /\ prog = "download_paper"
          /\ argv \in {<<>>} \cup CallArguments
          /\ max_retries = 0
       \/ /\ prog = "download_pdf"
          /\ argv \in CallArguments
          /\ max_retries \in 0..MaxRetries
    /\ output_file = <<>>
    /\ attempt = 0
    /\ outcome = "none"
    /\ last_error = "None"
    /\ events = <<>>
    /\ result = NoResult
    /\ call_filename = <<>>
    /\ returned = NoKey
    /\ exit_code = "running"
    /\ written = <<>>
    /\ NoScript

InDownload == prog \in {"download_paper", "download_pdf"}

\* main(): len(sys.argv) < 2: the usage is printed, sys.exit(1)
DownloadMainNoUrl ==
    /\ prog = "download_paper" /\ pc = "main"
    /\ Len(argv) < 1
    /\ exit_code' = "exit1"
    /\ pc' = "exit"
    /\ UNCHANGED <<prog, written, call_filename, returned>>
    /\ UNCHANGED download_vars
    /\ UNCHANGED script_vars

\* main(): download_pdf(url, output_path), with the default max_retries
DownloadMainCall ==
    /\ prog = "download_paper" /\ pc = "main"
    /\ Len(argv) >= 1
    /\ max_retries' = DefaultMaxRetries
    /\ pc' = "call"
    /\ UNCHANGED <<prog, exit_code, written, call_filename, returned>>
    /\ UNCHANGED <<argv, output_file, attempt, outcome, last_error, events, result>>
    /\ UNCHANGED script_vars

\* download_pdf is called on its own
DownloadCall ==
    /\ prog = "download_pdf" /\ pc = "main"
    /\ pc' = "call"
    /\ UNCHANGED <<prog, exit_code, written, call_filename, returned>>
    /\ UNCHANGED download_vars
    /\ UNCHANGED script_vars

\* download_pdf up to its loop: the URL is normalized, the output path is
\* determined, last_error = None
DownloadBegin ==
    /\ InDownload /\ pc = "call"
    /\ output_file' = OutputFilePalette[argv]
    /\ last_error' = "None"
    /\ pc' = "loop"
    /\ UNCHANGED <<prog, exit_code, written, call_filename, returned>>
    /\ UNCHANGED <<argv, max_retries, attempt, outcome, events, result>>
    /\ UNCHANGED script_vars

\* for attempt in range(1, max_retries + 1): the next request is sent
NextAttempt ==
    /\ InDownload /\ pc = "loop"
    /\ attempt < max_retries
    /\ attempt' = attempt + 1
    /\ events' = Append(events, "request")
    /\ outcome' = "none"
    /\ pc' = "try"
    /\ UNCHANGED <<prog, argv, output_file, max_retries, last_error, result>>
    /\ UNCHANGED <<exit_code, written, call_filename, returned>>
    /\ UNCHANGED script_vars

\* The content starts with %PDF: it is written to output_file, return True
AttemptSucceeds ==
    /\ InDownload /\ pc = "try"
    /\ outcome' = "pdf"
    /\ written' = Append(written, output_file)
    /\ result' = [ok |-> TRUE, message |-> "Successfully downloaded"]
    /\ pc' = "return"
    /\ UNCHANGED <<prog, argv, output_file, max_retries, attempt, last_error, events>>
    /\ UNCHANGED <<exit_code, call_filename, returned>>
    /\ UNCHANGED script_vars

\* The content does not start with %PDF: return False, with one message
\* when the Content-Type names neither a PDF nor an octet-stream and another
\* when it does
AttemptNotPdf ==
    /\ InDownload /\ pc = "try"
    /\ \E pdf_content_type \in BOOLEAN :
          result' = [ok |-> FALSE,
                     message |-> IF pdf_content_type
                                 THEN "Downloaded content is not a valid PDF file"
                                 ELSE "URL does not point to a PDF file"]
    /\ outcome' = "not a PDF"
    /\ pc' = "return"
    /\ UNCHANGED <<prog, argv, output_file, max_retries, attempt, last_error, events>>
    /\ UNCHANGED <<exit_code, written, call_filename, returned>>
    /\ UNCHANGED script_vars

\* except urllib.error.HTTPError: 404 and 403 return False, any other code
\* goes on to the wait before the next attempt
AttemptHttpError ==
    /\ InDownload /\ pc = "try"
    /\ \E code \in HttpErrorCodes :
          /\ last_error' = HttpErrorText(code)
          /\ outcome' = HttpErrorText(code)
          /\ IF HttpErrorReturns(code)
             THEN /\ result' = [ok |-> FALSE,
                                message |-> IF code = 404
                                            THEN "Paper not found (404)"
                                            ELSE "Access denied (403)"]
                  /\ pc' = "return"
                  /\ events' = events
             ELSE /\ result' = result
                  /\ pc' = IF ShouldWait(attempt, max_retries) THEN "sleep" ELSE "loop"
                  /\ events' = IF ShouldWait(attempt, max_retries)
                               THEN Append(events, "sleep") ELSE events
    /\ UNCHANGED <<prog, argv, output_file, max_retries, attempt>>
    /\ UNCHANGED <<exit_code, written, call_filename, returned>>
    /\ UNCHANGED script_vars

\* except URLError, TimeoutError, Exception: last_error is set, then the
\* wait before the next attempt.  "except TimeoutError" and "except
\* Exception" also catch a failure of f.write(content), after
\* open(output_file, 'wb') has created or truncated the file: output_file is
\* then left on disk, incomplete.
AttemptFails ==
    /\ InDownload /\ pc = "try"
    /\ \E e \in OtherErrors :
          /\ last_error' = e
          /\ outcome' = e
          /\ \E file_opened \in WriteFailures(e) :
                written' = IF file_opened THEN Append(written, output_file)
                           ELSE written
    /\ pc' = IF ShouldWait(attempt, max_retries) THEN "sleep" ELSE "loop"
    /\ events' = IF ShouldWait(attempt, max_retries)
                 THEN Append(events, "sleep") ELSE events
    /\ UNCHANGED <<prog, argv, output_file, max_retries, attempt, result>>
    /\ UNCHANGED <<exit_code, call_filename, returned>>
    /\ UNCHANGED script_vars

\* time.sleep(retry_delay) returns
SleepDone ==
    /\ InDownload /\ pc = "sleep"
    /\ pc' = "loop"
    /\ UNCHANGED <<prog, exit_code, written, call_filename, returned>>
    /\ UNCHANGED download_vars
    /\ UNCHANGED script_vars

\* The loop is over: return False, f"Failed after {max_retries} attempts..."
LoopExhausted ==
    /\ InDownload /\ pc = "loop"
    /\ attempt >= max_retries
    /\ result' = [ok |-> FALSE, message |-> "Failed after max_retries attempts"]
    /\ pc' = "return"
    /\ UNCHANGED <<prog, argv, output_file, max_retries, attempt, outcome,
                   last_error, events>>
    /\ UNCHANGED <<exit_code, written, call_filename, returned>>
    /\ UNCHANGED script_vars

\* main(): print(message); sys.exit(0 if success else 1)
DownloadMainExit ==
    /\ prog = "download_paper" /\ pc = "return"
    /\ exit_code' = ExitStatus(result)
    /\ pc' = "exit"
    /\ UNCHANGED <<prog, written, call_filename, returned>>
    /\ UNCHANGED download_vars
    /\ UNCHANGED script_vars

DownloadNext ==
    \/ DownloadMainNoUrl
    \/ DownloadMainCall
    \/ DownloadCall
    \/ DownloadBegin
    \/ NextAttempt
    \/ AttemptSucceeds
    \/ AttemptNotPdf
    \/ AttemptHttpError
    \/ AttemptFails
    \/ SleepDone
    \/ LoopExhausted
    \/ DownloadMainExit

\* Every request comes to an end (urlopen is given a timeout) and so does
\* every sleep: a step that can be taken is taken.
DownloadSpec == DownloadInit /\ [][DownloadNext]_vars /\ WF_vars(DownloadNext)


----------------------------------------------------------------------------
(* Vocabulary of the properties *)

\* main() holds the list split_into_chunks returned
PaperReturned ==
    prog = "chunk_paper" /\ pc \in {"save", "exit"} /\ exit_code # "exit1"

\* main() holds the list generate_chunks returned
CodeReturned ==
    prog = "analyze_code" /\ (pc = "manifest" \/ manifest # NoManifest)

\* The concatenation of a sequence of sequences
RECURSIVE Flatten(_)
Flatten(ss) == IF ss = <<>> THEN <<>> ELSE ss[1] \o Flatten(Tail(ss))

\* The files of self.files that generate_chunks can open, in order
RECURSIVE ReadableFiles(_)
ReadableFiles(fs) ==
    IF fs = <<>> THEN <<>>
    ELSE (IF fs[1].path \in unreadable THEN <<>> ELSE <<fs[1].path>>)
         \o ReadableFiles(Tail(fs))

\* estimate_tokens of the k-th section's text
SectionTokens(k) == estimate_tokens(SectionText(text, section_ranges[k]))

----------------------------------------------------------------------------
(* Properties *)

\* C1: with a positive budget, every chunk the packers have produced records
\* a size estimate of at most the budget, unless it consists of one
\* indivisible piece (one paragraph of a split section or document, one file)
\* whose own estimate exceeds the budget.
C1_ChunksWithinBudget ==
    max_tokens > 0 =>
        /\ prog = "chunk_paper" =>
              /\ current_chunk.tokens <= max_tokens
              /\ \A k \in 1..Len(chunks) :
                    \/ chunks[k].tokens <= max_tokens
                    \/ chunks[k].pieces = 1 /\ chunks[k].tokens > max_tokens
        /\ prog = "analyze_code" =>
              \A k \in 1..Len(chunks) :
                  \/ chunks[k].tokens <= max_tokens
                  \/ Len(chunks[k].files) = 1 /\ chunks[k].tokens > max_tokens

\* A finished run of the text packer whose chunks show every case: a chunk
\* of packed sections, several paragraphs packed together, and one paragraph
\* that alone exceeds the budget.
C1_Witness ==
    /\ PaperReturned /\ pc = "exit" /\ max_tokens > 0
    /\ \E k \in 1..Len(chunks) :
          chunks[k].pieces = 0 /\ chunks[k].tokens <= max_tokens
    /\ \E k \in 1..Len(chunks) :
          chunks[k].pieces >= 2 /\ chunks[k].tokens <= max_tokens
    /\ \E k \in 1..Len(chunks) :
          chunks[k].pieces = 1 /\ chunks[k].tokens > max_tokens


\* C2 as stated: with a positive budget, the member lists of the returned
\* chunks, concatenated in chunk order, are the unit sequence: the names of
\* the detected sections in document order, the paths of self.files in order.
C2_MembersAreUnitSequence ==
    max_tokens > 0 =>
        /\ (PaperReturned /\ sections # <<>>) =>
              Flatten([k \in 1..Len(chunks) |-> chunks[k].sections])
                  = [k \in 1..Len(section_ranges) |-> section_ranges[k].name]
        /\ CodeReturned =>
              Flatten([k \in 1..Len(chunks) |-> chunks[k].files])
                  = [k \in 1..Len(files) |-> files[k].path]

\* C2 as amended: with a positive budget, generate_chunks' file lists,
\* concatenated in chunk order, are the files of self.files that could be
\* read, in order; split_into_chunks loses no section, puts a section within
\* the budget in exactly one chunk and a larger one alone in each of its
\* sub-chunks, names the members of every chunk in document order, and keeps
\* document order between chunks of one tier.
C2_MembersPreserved ==
    max_tokens > 0 =>
        /\ (PaperReturned /\ sections # <<>>) =>
              LET flat == Flatten([k \in 1..Len(chunks) |-> chunks[k].units])
              IN  /\ {flat[j] : j \in 1..Len(flat)} = 1..Len(section_ranges)
                  /\ \A u \in 1..Len(section_ranges) :
                        SectionTokens(u) <= max_tokens =>
                            Cardinality({j \in 1..Len(flat) : flat[j] = u}) = 1
                  /\ \A k \in 1..Len(chunks) :
                        LET c == chunks[k]
                        IN  /\ c.sections = [j \in 1..Len(c.units) |->
                                                section_ranges[c.units[j]].name]
                            /\ \A a, b \in 1..Len(c.units) :
                                  a < b => c.units[a] < c.units[b]
                            /\ c.pieces > 0 =>
                                  /\ Len(c.units) = 1
                                  /\ SectionTokens(c.units[1]) > max_tokens
                  /\ \A a, b \in 1..Len(chunks) :
                        (a < b /\ chunks[a].priority = chunks[b].priority) =>
                            chunks[a].units[Len(chunks[a].units)] <= chunks[b].units[1]
        /\ CodeReturned =>
              Flatten([k \in 1..Len(chunks) |-> chunks[k].files])
                  = ReadableFiles(files)

\* A finished run of the text packer in which the sort moved a chunk ahead of
\* a chunk of earlier sections and a section was split into several
\* sub-chunks.
C2_Witness ==
    /\ PaperReturned /\ pc = "exit" /\ max_tokens > 0 /\ sections # <<>>
    /\ \E a, b \in 1..Len(chunks) :
          a < b /\ chunks[a].units[1] > chunks[b].units[1]
    /\ \E a, b \in 1..Len(chunks) :
          a < b /\ chunks[a].pieces > 0 /\ chunks[a].units = chunks[b].units


\* The tier of the file of self.files with this path
TierOfPath(path) == files[CHOOSE k \in 1..Len(files) : files[k].path = path].priority

\* C3: the tier of every emitted chunk is the smallest tier among the units
\* that are its members, for split_into_chunks and for generate_chunks.
C3_TierIsMinimum ==
    /\ (PaperReturned /\ sections # <<>>) =>
          \A k \in 1..Len(chunks) :
              chunks[k].priority
                  = MinOf({section_ranges[chunks[k].units[j]].priority :
                              j \in 1..Len(chunks[k].units)})
    /\ CodeReturned =>
          \A k \in 1..Len(chunks) :
              chunks[k].priority
                  = MinOf({TierOfPath(chunks[k].files[j]) :
                              j \in 1..Len(chunks[k].files)})

\* C4: no packer returns an empty chunk: every chunk has a member and content.
C4_NoEmptyChunk ==
    /\ prog = "chunk_paper" =>
          \A k \in 1..Len(chunks) :
              chunks[k].sections # <<>> /\ chunks[k].text # <<>>
    /\ prog = "analyze_code" =>
          \A k \in 1..Len(chunks) :
              chunks[k].files # <<>> /\ chunks[k].tokens > 0

\* The sum of the size estimates of the first n sections
RECURSIVE SumSectionTokens(_)
SumSectionTokens(n) == IF n = 0 THEN 0 ELSE SumSectionTokens(n - 1) + SectionTokens(n)

\* The sum of the size estimates of the files of fs that can be read
RECURSIVE SumFileTokens(_)
SumFileTokens(fs) ==
    IF fs = <<>> THEN 0
    ELSE (IF fs[1].path \in unreadable THEN 0
          ELSE code_estimate_tokens(FileContent(fs[1], ReadSource(fs[1].path))))
         + SumFileTokens(Tail(fs))

\* C5: when the budget equals the sum of the size estimates of a non-empty
\* unit sequence, the packer returns one chunk that holds every unit; and
\* only a section larger than the budget is ever split, so a section of
\* exactly the budget is packed whole.
C5_ExactBudgetOneChunk ==
    /\ (PaperReturned /\ sections # <<>>) =>
          /\ max_tokens = SumSectionTokens(Len(section_ranges)) =>
                /\ Len(chunks) = 1
                /\ chunks[1].units = [k \in 1..Len(section_ranges) |-> k]
                /\ chunks[1].tokens = max_tokens
          /\ \A k \in 1..Len(chunks) :
                chunks[k].pieces > 0 => SectionTokens(chunks[k].units[1]) > max_tokens
    /\ (CodeReturned /\ ReadableFiles(files) # <<>>
                     /\ max_tokens = SumFileTokens(files)) =>
          /\ Len(chunks) = 1
          /\ chunks[1].files = ReadableFiles(files)
          /\ chunks[1].tokens = max_tokens

\* A finished run of the text packer over several sections whose estimates
\* sum to the budget, the last of them with an estimate of its own.
C5_Witness ==
    /\ PaperReturned /\ pc = "exit"
    /\ Len(section_ranges) >= 2
    /\ max_tokens = SumSectionTokens(Len(section_ranges))
    /\ Len(chunks) = 1


\* C6: a budget that is not positive is rejected before anything is
\* processed: no chunk is produced and nothing is written.
C6_NonPositiveBudgetRejected ==
    max_tokens <= 0 =>
        /\ chunks = <<>>
        /\ written = <<>>
        /\ manifest = NoManifest
        /\ exit_code # "exit0"

\* C7: a run over zero inputs (a directory without source files, a document
\* without pages) ends without an error and has written a manifest with no
\* chunks and no inputs.
C7_ZeroInputsManifest ==
    [][/\ (prog = "analyze_code" /\ pc = "scanned" /\ files = <<>>) =>
             /\ exit_code' = "exit0"
             /\ manifest' = CodeManifest(<<>>, <<>>)
       /\ (prog = "chunk_paper" /\ pc = "save" /\ pages = <<>>) =>
             /\ exit_code' = "exit0"
             /\ manifest' = PaperManifest(<<>>)]_vars

\* C8: with a positive budget, every chunk split_into_chunks returns, with or
\* without detected headings, carries its position as index and the length of
\* the list as total, so that save_chunks emits it.
C8_ChunksIndexed ==
    /\ (PaperReturned /\ max_tokens > 0) =>
          \A k \in 1..Len(chunks) :
              chunks[k].index = k - 1 /\ chunks[k].total = Len(chunks)
    /\ (PaperReturned /\ max_tokens > 0 /\ pc = "exit") =>
          /\ exit_code = "exit0"
          /\ written = PaperSavedFiles(chunks)

\* The script has run twice and its packer has returned in the second run
PackedAgain ==
    /\ previous_run # NoRun
    /\ pc = "exit"
    /\ PaperReturned \/ CodeReturned

CodePackedAgain ==
    /\ PackedAgain
    /\ prog = "analyze_code"
    /\ PackerInput = previous_run.input
    /\ unreadable # {}
    /\ Len(chunks) >= 2
    /\ \E a, b \in 1..Len(files) : a < b /\ files[a].priority = files[b].priority

\* chunk_paper.py has run twice on a text without headings: both runs ended
\* in the KeyError of save_chunks, holding the same chunks
UnsectionedPackedAgain ==
    /\ PackedAgain
    /\ prog = "chunk_paper"
    /\ exit_code = "KeyError"
    /\ Len(chunks) >= 2

\* The unit sequence scan_directory hands to the code packer is the same for
\* every order in which os.walk lists the files of the directory
UnitsIndependentOfWalkOrder ==
    (prog = "analyze_code" /\ pc = "scanned") =>
        \A order \in WalkOrders(entries) :
            scan_directory(order, ScannedPalette) = files

\* The tier a chunk is saved under: chunk.get('priority', 2)
ChunkTier(c) == IF c.priority = NoKey THEN DefaultSectionPriority ELSE c.priority

\* C10: the returned chunks are in order of tier: for chunks at positions
\* a < b, the tier of the first is at most the tier of the second.
C10_ChunksOrderedByTier ==
    (PaperReturned \/ CodeReturned) =>
        \A a, b \in 1..Len(chunks) :
            a < b => ChunkTier(chunks[a]) <= ChunkTier(chunks[b])

\* A finished run of the text packer whose chunks have several tiers and
\* were packed in another order than they are returned in.
C10_Witness ==
    /\ PaperReturned /\ pc = "exit" /\ sections # <<>>
    /\ \E a, b \in 1..Len(chunks) :
          /\ a < b
          /\ chunks[a].priority < chunks[b].priority
          /\ chunks[a].units[1] > chunks[b].units[1]


\* The files of the directory that scan_directory hands to parse_file
Candidates == {e \in entries : EndsWithPy(e.name) /\ ~should_skip(e.name)}

\* C11: an extraction failure on one input does not abort the run: that
\* input alone is skipped, with a warning, and every other input that is not
\* excluded is extracted and appears in the result, in scan_directory (a file
\* parse_file cannot parse) and in generate_chunks (a file that cannot be
\* opened).
C11_FailureSkippedWithWarning ==
    /\ (prog = "analyze_code" /\ pc \in {"scanned", "mode", "gen", "manifest"}) =>
          /\ {files[k].path : k \in 1..Len(files)}
                = {e.name : e \in {c \in Candidates : ~ParseFails(c)}}
          /\ \A e \in Candidates : ParseFails(e) => e.name \in warnings
    /\ CodeReturned =>
          LET packed == Flatten([k \in 1..Len(chunks) |-> chunks[k].files])
          IN  /\ exit_code # "exit1"
              /\ \A k \in 1..Len(files) :
                    IF files[k].path \in unreadable
                    THEN /\ \A j \in 1..Len(packed) : packed[j] # files[k].path
                         /\ files[k].path \in warnings
                    ELSE \E j \in 1..Len(packed) : packed[j] = files[k].path


\* The sum of the counts of a tier distribution
RECURSIVE SumCounts(_, _)
SumCounts(d, labels) ==
    IF labels = {} THEN 0
    ELSE LET l == CHOOSE x \in labels : TRUE
         IN  d[l] + SumCounts(d, labels \ {l})

\* C12: the manifest written is an aggregation of the packer's output: its
\* descriptor list has the length and the order of the chunk sequence,
\* descriptor k carries chunk k's index, tier, members and size, the total
\* chunk count is that length, and the counts of the tier distribution sum
\* to the number of inputs.
C12_ManifestFaithful ==
    /\ (prog = "analyze_code" /\ manifest # NoManifest) =>
          /\ Len(manifest.chunks) = Len(chunks)
          /\ manifest.total_chunks = Len(chunks)
          /\ \A k \in 1..Len(chunks) :
                /\ manifest.chunks[k].index = k - 1
                /\ manifest.chunks[k].index = chunks[k].index
                /\ manifest.chunks[k].priority = chunks[k].priority
                /\ manifest.chunks[k].files = chunks[k].files
                /\ manifest.chunks[k].tokens = chunks[k].tokens
          /\ manifest.total_files = Len(files)
          /\ SumCounts(manifest.priority_distribution,
                       DOMAIN manifest.priority_distribution) = Len(files)
    /\ (prog = "chunk_paper" /\ manifest # NoManifest) =>
          /\ Len(manifest.chunks) = Len(chunks)
          /\ manifest.total_chunks = Len(chunks)
          /\ \A k \in 1..Len(chunks) :
                /\ manifest.chunks[k].index = k - 1
                /\ manifest.chunks[k].index = chunks[k].index
                /\ manifest.chunks[k].priority
                      = <<"P">> \o Decimal(ChunkTier(chunks[k]))
                /\ manifest.chunks[k].sections = chunks[k].sections
                /\ manifest.chunks[k].tokens = chunks[k].tokens
                /\ manifest.chunks[k].file = written[k]

\* A finished run of analyze_code whose manifest lists several chunks, over
\* files of several tiers, one of which is in no chunk.
C12_Witness ==
    /\ prog = "analyze_code" /\ pc = "exit" /\ manifest # NoManifest
    /\ Len(manifest.chunks) >= 2
    /\ Cardinality(DOMAIN manifest.priority_distribution) >= 2
    /\ Len(Flatten([k \in 1..Len(chunks) |-> chunks[k].files])) < Len(files)

----------------------------------------------------------------------------
(* get_priority *)

\* The tiers of FILE_PRIORITY one of whose patterns is found in the name
MatchingTiers(name) ==
    {FILE_PRIORITY[k].priority : k \in
        {t \in 1..Len(FILE_PRIORITY) :
            \E j \in 1..Len(FILE_PRIORITY[t].patterns) :
                re_search(FILE_PRIORITY[t].patterns[j], name)}}

PriorityReturned == prog = "get_priority" /\ pc = "return"

\* The first half of C13: the lowest matching tier, 99 only when none matches
LowestMatchingTier ==
    PriorityReturned =>
        IF MatchingTiers(call_filename) = {}
        THEN returned = DefaultFilePriority
        ELSE /\ returned \in MatchingTiers(call_filename)
             /\ returned \in 0..3
             /\ \A t \in MatchingTiers(call_filename) : returned <= t

\* C13: get_priority(name) returns the lowest-numbered tier among tiers 0..3
\* one of whose patterns matches the name, and 99 only when no pattern of any
\* tier matches; modeling_bert.py, config.py and random_util.py yield tiers
\* 0, 1 and 3.
C13_LowestTierAndExamples ==
    /\ LowestMatchingTier
    /\ PriorityReturned =>
        /\ call_filename = <<"m", "o", "d", "e", "l", "i", "n", "g", "_", "b", "e", "r", "t", ".", "p", "y">> => returned = 0
        /\ call_filename = <<"c", "o", "n", "f", "i", "g", ".", "p", "y">> => returned = 1
        /\ call_filename = <<"r", "a", "n", "d", "o", "m", "_", "u", "t", "i", "l", ".", "p", "y">> => returned = 3

----------------------------------------------------------------------------
(* identify_sections *)

\* The offsets of the text at which a line starts
LineStarts(t) == {s \in 0..(Len(t) - 1) : s = 0 \/ t[s] = "\n"}

\* The line that starts at offset s, stripped
StrippedLine(t, s) == strip(Slice(t, s, LineEnd(t, s)))

\* The lines over the cap that start with a section keyword
LongKeywordLines(t) ==
    {s \in LineStarts(t) :
        /\ Len(StrippedLine(t, s)) > MaxHeadingLen
        /\ MatchSectionPatterns(StrippedLine(t, s))}

\* C14: every section boundary identify_sections reports is the start offset
\* of a non-empty line of at most 100 characters (stripped) that matches a
\* heading pattern, and no line longer than 100 characters is a boundary,
\* even one that starts with a section keyword.
C14_BoundariesAreShortHeadings ==
    /\ \A k \in 1..Len(sections) :
          /\ sections[k].start \in LineStarts(text)
          /\ StrippedLine(text, sections[k].start) # <<>>
          /\ Len(StrippedLine(text, sections[k].start)) <= MaxHeadingLen
          /\ MatchSectionPatterns(StrippedLine(text, sections[k].start))
          /\ sections[k].name = StrippedLine(text, sections[k].start)
    /\ \A s \in LineStarts(text) :
          Len(StrippedLine(text, s)) > MaxHeadingLen =>
              \A k \in 1..Len(sections) : sections[k].start # s

\* identify_sections has run on a text with a line over the cap that starts
\* with a section keyword, and has found the headings around it.
C14_Witness ==
    /\ prog = "chunk_paper"
    /\ pc \in {"split", "pack"}
    /\ LongKeywordLines(text) # {}
    /\ Len(sections) >= 2
    /\ \E s \in LongKeywordLines(text) :
          \E a, b \in 1..Len(sections) :
              sections[a].start < s /\ s < sections[b].start

----------------------------------------------------------------------------
(* split_into_chunks: a section over the limit *)

\* The loop of split_into_chunks is about to take section i, which alone
\* exceeds the limit
AtOversizedSection ==
    /\ prog = "chunk_paper"
    /\ pc = "pack"
    /\ i <= Len(section_ranges)
    /\ SectionTokens(i) > max_tokens

\* The accumulator as a list of chunks to flush: itself when it holds a
\* section, nothing otherwise
OpenChunk == IF current_chunk.sections # <<>> THEN <<current_chunk>> ELSE <<>>

\* The iteration of the loop for an oversized section i: the accumulator
\* is flushed first, the sub-slices follow, the accumulator is left empty
OversizedIteration ==
    (AtOversizedSection /\ i' = i + 1) =>
        LET n == Len(chunks) + Len(OpenChunk)
        IN  /\ Len(chunks') > n
            /\ SubSeq(chunks', 1, n) = chunks \o OpenChunk
            /\ \A k \in (n + 1)..Len(chunks') :
                  /\ chunks'[k].sections = <<section_ranges[i].name>>
                  /\ chunks'[k].priority = section_ranges[i].priority
                  /\ chunks'[k].units = <<i>>
                  /\ chunks'[k].pieces >= 1
            /\ current_chunk' = EmptyChunk

\* An iteration of the loop only appends to the chunk list, and the chunks
\* it appends hold no unit that precedes a unit of a chunk before them
AppendsInUnitOrder ==
    (prog = "chunk_paper" /\ pc = "pack" /\ pc' = "pack") =>
        /\ Len(chunks') >= Len(chunks)
        /\ SubSeq(chunks', 1, Len(chunks)) = chunks
        /\ \A k \in (Len(chunks) + 1)..Len(chunks') :
              \A j \in 1..(k - 1) :
                  \A a \in 1..Len(chunks'[j].units) :
                      \A b \in 1..Len(chunks'[k].units) :
                          chunks'[j].units[a] <= chunks'[k].units[b]

\* C15: at a section whose estimate alone exceeds the limit,
\* split_into_chunks first appends the non-empty accumulator to the chunk
\* list, then the section's sub-slices, each with that section as its single
\* member and with that section's tier, and leaves the accumulator empty;
\* and no chunk appended during the loop holds a unit that precedes a unit
\* of a chunk appended before it.
C15_OversizedFlushesThenSplits ==
    [][OversizedIteration /\ AppendsInUnitOrder]_vars

\* The loop has just split an oversized section into several sub-slices,
\* after flushing an accumulator that held the sections before it.
C15_Witness ==
    /\ prog = "chunk_paper"
    /\ pc = "pack"
    /\ i > 2
    /\ SectionTokens(i - 1) > max_tokens
    /\ current_chunk = EmptyChunk
    /\ \E k \in 2..(Len(chunks) - 1) :
          /\ chunks[k - 1].pieces = 0
          /\ chunks[k - 1].units # <<>>
          /\ \A a \in 1..Len(chunks[k - 1].units) : chunks[k - 1].units[a] < i - 1
          /\ chunks[k].units = <<i - 1>>
          /\ chunks[k + 1].units = <<i - 1>>
          /\ Len(chunks) = k + 1

----------------------------------------------------------------------------
(* The packers against a reference greedy packer *)

\* The reference: one pass over the sizes; unit k joins the open group when
\* the group is empty or its size plus sizes[k] is within the budget, else
\* the open group is closed and k starts a new one.  The result is the list
\* of groups of unit numbers, the open group last.
RECURSIVE GreedyPack(_, _, _, _, _, _)
GreedyPack(sizes, budget, k, open, open_size, closed) ==
    IF k > Len(sizes)
    THEN IF open = <<>> THEN closed ELSE Append(closed, open)
    ELSE IF open = <<>> \/ open_size + sizes[k] <= budget
         THEN GreedyPack(sizes, budget, k + 1, Append(open, k),
                         open_size + sizes[k], closed)
         ELSE GreedyPack(sizes, budget, k + 1, <<k>>, sizes[k],
                         Append(closed, open))

ReferencePack(sizes, budget) == GreedyPack(sizes, budget, 1, <<>>, 0, <<>>)

\* The sections split_into_chunks has gone through, as groups of section
\* numbers: the chunk list, then the accumulator when it holds a section
PackedSections ==
    [k \in 1..Len(chunks) |-> chunks[k].units]
    \o (IF current_chunk.units # <<>> THEN <<current_chunk.units>> ELSE <<>>)

\* The files generate_chunks has gone through, as groups of paths: the
\* chunk list, then current_chunk when it holds a file
PackedFiles ==
    [k \in 1..Len(chunks) |-> chunks[k].files]
    \o (IF gen_chunk # <<>> THEN <<ChunkFileNames(gen_chunk)>> ELSE <<>>)

\* The readable files among the first n of self.files
ReadableSoFar(n) ==
    SelectSeq(SubSeq(files, 1, n), LAMBDA f : f.path \notin unreadable)

\* A group of positions of fs as the group of their paths
PathsOf(fs, group) == [k \in 1..Len(group) |-> fs[group[k]].path]

\* C16: both packers are the greedy single-pass rule.  While
\* split_into_chunks loops over sections that each fit the budget, and while
\* generate_chunks loops over files, the chunk list followed by the open
\* accumulator is what the reference greedy packer makes of the sizes of the
\* units gone through.
C16_PackersAreGreedy ==
    /\ (/\ prog = "chunk_paper"
        /\ pc = "pack"
        /\ \A k \in 1..(i - 1) : SectionTokens(k) <= max_tokens) =>
            PackedSections
              = ReferencePack([k \in 1..(i - 1) |-> SectionTokens(k)], max_tokens)
    /\ (prog = "analyze_code" /\ pc = "gen") =>
            LET fs == ReadableSoFar(i - 1)
                sizes == [k \in 1..Len(fs) |->
                            code_estimate_tokens(
                                FileContent(fs[k], ReadSource(fs[k].path)))]
                groups == ReferencePack(sizes, max_tokens)
            IN  PackedFiles = [g \in 1..Len(groups) |-> PathsOf(fs, groups[g])]

\* generate_chunks has gone through three files that each fit the budget:
\* the first two share a chunk, the third did not fit with them.
C16_Witness ==
    /\ prog = "analyze_code"
    /\ pc = "gen"
    /\ i = 4
    /\ Len(ReadableSoFar(3)) = 3
    /\ \A k \in 1..3 :
          code_estimate_tokens(FileContent(files[k], ReadSource(files[k].path)))
              <= max_tokens
    /\ PackedFiles = << <<files[1].path, files[2].path>>, <<files[3].path>> >>
    /\ ReferencePack(<<100, 100, 100>>, 250) = << <<1, 2>>, <<3>> >>

\* split_into_chunks has gone through sections that each fit the budget, and
\* two of them share a chunk.
SectionsJoined ==
    /\ prog = "chunk_paper"
    /\ pc = "pack"
    /\ i = 4
    /\ \A k \in 1..3 : SectionTokens(k) <= max_tokens
    /\ PackedSections = << <<1>>, <<2, 3>> >>

----------------------------------------------------------------------------
(* download_pdf *)

\* The number of requests download_pdf has sent
RequestsSent == Cardinality({k \in 1..Len(events) : events[k] = "request"})

\* download_pdf has been entered
DownloadEntered == InDownload /\ pc = "call"

\* download_pdf has returned (and main() may have exited since)
DownloadReturned == InDownload /\ result # NoResult

\* The outcomes of a request after which download_pdf returns at once
FinalOutcomes == {"pdf", "not a PDF", "HTTP Error 404", "HTTP Error 403"}

\* At most max_retries requests; requests and sleeps alternate, starting with
\* a request, and no sleep follows request number max_retries; a result is
\* there exactly when the function has returned, and it is (True, ...) or
\* (False, ...), True only for a downloaded PDF, which is then written to
\* output_file; no other file is ever written, and none without a request.
BoundedRetries ==
    /\ RequestsSent <= max_retries
    /\ RequestsSent = attempt
    /\ \A k \in 1..Len(events) :
          events[k] = (IF k % 2 = 1 THEN "request" ELSE "sleep")
    /\ Len(events) < 2 * max_retries \/ events = <<>>
    /\ pc = "sleep" => events[Len(events)] = "sleep"
    /\ pc \in {"try", "return"} => (events = <<>> \/ events[Len(events)] = "request")
    /\ (result # NoResult) => pc \in {"return", "exit"}
    /\ Len(written) <= RequestsSent
    /\ \A k \in 1..Len(written) : written[k] = output_file
    /\ pc = "return" => result # NoResult
    /\ (result # NoResult) =>
          /\ result.ok \in BOOLEAN
          /\ result.ok <=> outcome = "pdf"
          /\ result.ok => (written # <<>> /\ written[Len(written)] = output_file)
          /\ (outcome \notin FinalOutcomes) => RequestsSent = max_retries
          /\ pc = "exit" => exit_code = (IF result.ok THEN "exit0" ELSE "exit1")

\* After the return nothing but the exit of main() follows: no request, no
\* sleep, no other result.  A request that ends in a PDF, in content that is
\* no PDF, or in a 404 or 403 response is followed by the return, without a
\* sleep.
ReturnIsFinal ==
    /\ (result # NoResult) =>
          /\ prog = "download_paper"
          /\ pc = "return" /\ pc' = "exit"
          /\ events' = events
          /\ result' = result
          /\ written' = written
    /\ (pc = "try" /\ outcome' \in FinalOutcomes) =>
          /\ pc' = "return"
          /\ events' = events
    /\ (pc = "try" /\ outcome' \notin FinalOutcomes) =>
          /\ pc' = (IF attempt < max_retries THEN "sleep" ELSE "loop")
          /\ result' = NoResult

\* C17: under every sequence of request outcomes download_pdf sends at most
\* max_retries requests, sends none after a success, a 404 or 403 response or
\* content that is no PDF, sleeps between two attempts but not after the last
\* one, and, once entered, in the end returns (True, ...) or (False, ...).
C17_BoundedRetriesTerminate ==
    /\ []BoundedRetries
    /\ [][ReturnIsFinal]_vars
    /\ DownloadEntered ~> DownloadReturned

\* download_pdf has returned False after max_retries requests that all
\* failed, with a sleep between each two of them and none at the end.
C17_Witness ==
    /\ DownloadReturned
    /\ max_retries >= 3
    /\ RequestsSent = max_retries
    /\ Len(events) = 2 * max_retries - 1
    /\ result.ok = FALSE
    /\ result.message = "Failed after max_retries attempts"

\* main() has exited with status 0 after a download at the second attempt,
\* into the directory given
DownloadedAtSecondAttempt ==
    /\ prog = "download_paper"
    /\ pc = "exit"
    /\ exit_code = "exit0"
    /\ events = <<"request", "sleep", "request">>
    /\ written = <<<<"p", "a", "p", "e", "r", "s", "/", "a", "r", "x", "i", "v", "_", "2", "5", "0", "5", ".", "2", "2", "5", "9", "6", ".", "p", "d", "f">>>>

\* download_pdf has returned False and left an incomplete output_file
FailedWithFileLeft ==
    /\ DownloadReturned
    /\ result.ok = FALSE
    /\ written # <<>>

\* The last attempt timed out while the file was written: download_pdf has
\* returned False with "Request timed out" and output_file is on disk
TimedOutWithFileLeft ==
    /\ DownloadReturned
    /\ result.ok = FALSE
    /\ last_error = "Request timed out"
    /\ Len(written) = RequestsSent
    /\ written # <<>>

----------------------------------------------------------------------------
(* Coverage of the document by the sections *)

\* The sections whose span holds the character offset off
SpansOf(off) ==
    {k \in 1..Len(section_ranges) :
        section_ranges[k].start <= off /\ off < section_ranges[k].end}

\* split_into_chunks has built section_ranges from detected headings
SectionsRanged ==
    prog = "chunk_paper" /\ pc \in {"pack", "save", "exit"} /\ section_ranges # <<>>

\* The spans are non-empty, each ends where the next starts, and the last
\* ends with the document: they tile the text from the first heading on.
SpansTileFromFirstHeading ==
    SectionsRanged =>
        /\ section_ranges[1].start = sections[1].start
        /\ \A k \in 1..Len(section_ranges) :
              /\ section_ranges[k].start < section_ranges[k].end
              /\ section_ranges[k].end =
                    (IF k < Len(section_ranges)
                     THEN section_ranges[k + 1].start ELSE Len(text))
        /\ \A off \in section_ranges[1].start..(Len(text) - 1) :
              Cardinality(SpansOf(off)) = 1

\* C18: the chunks of split_into_chunks cover the whole document: every
\* character offset of the text, the text before the first detected heading
\* included, lies in the span of exactly one section, and that section is in
\* some chunk returned.
C18_SectionsCoverDocument ==
    /\ SectionsRanged =>
          \A off \in 0..(Len(text) - 1) : Cardinality(SpansOf(off)) = 1
    /\ (SectionsRanged /\ PaperReturned) =>
          \A off \in 0..(Len(text) - 1) :
              \E k \in 1..Len(chunks) :
                  \E u \in 1..Len(chunks[k].units) :
                      chunks[k].units[u] \in SpansOf(off)

----------------------------------------------------------------------------
(* The running size of the accumulators *)

RECURSIVE SumSeq(_)
SumSeq(ns) == IF ns = <<>> THEN 0 ELSE ns[1] + SumSeq(Tail(ns))

\* The paragraphs split_by_tokens went through to make the split chunk c:
\* those of its section, or of the whole text when no heading was detected
ParagraphsOf(c) ==
    SplitParagraphs(IF c.units = <<>> THEN text
                    ELSE SectionText(text, section_ranges[c.units[1]]))

\* The number of paragraphs in the split chunks of the same text before cs[k]
PiecesBefore(cs, k) ==
    SumSeq([j \in 1..(k - 1) |->
              IF cs[j].units = cs[k].units /\ cs[j].pieces >= 1
              THEN cs[j].pieces ELSE 0])

\* The sum of the size estimates of the members of cs[k]: its sections, or,
\* for a chunk of split_by_tokens, its paragraphs
MemberTokens(cs, k) ==
    IF cs[k].pieces = 0
    THEN SumSeq([u \in 1..Len(cs[k].units) |-> SectionTokens(cs[k].units[u])])
    ELSE LET ps == ParagraphsOf(cs[k])
             off == PiecesBefore(cs, k)
         IN  SumSeq([q \in 1..cs[k].pieces |-> estimate_tokens(ps[off + q])])

\* The size estimate of the file content generate_chunks builds for path
FileTokensOf(path) ==
    LET f == files[CHOOSE k \in 1..Len(files) : files[k].path = path]
    IN  code_estimate_tokens(FileContent(f, ReadSource(path)))

\* C19: at every step of packing, the running size of the open accumulator
\* is the sum of the size estimates of the units in it, and the size
\* recorded in every emitted chunk is the sum of the size estimates of
\* exactly its members: nothing is carried over a flush.
C19_RunningSizeIsSumOfMembers ==
    /\ (prog = "chunk_paper" /\ pc = "pack") =>
          current_chunk.tokens =
              SumSeq([u \in 1..Len(current_chunk.units) |->
                         SectionTokens(current_chunk.units[u])])
    /\ (prog = "chunk_paper" /\ pc \in {"pack", "save", "exit"}) =>
          \A k \in 1..Len(chunks) : chunks[k].tokens = MemberTokens(chunks, k)
    /\ (prog = "analyze_code" /\ pc = "gen") =>
          current_tokens =
              SumSeq([k \in 1..Len(gen_chunk) |-> code_estimate_tokens(gen_chunk[k])])
    /\ (prog = "analyze_code" /\ pc \in {"gen", "manifest", "exit"}) =>
          \A k \in 1..Len(chunks) :
              chunks[k].tokens =
                  SumSeq([f \in 1..Len(chunks[k].files) |->
                             FileTokensOf(chunks[k].files[f])])

\* split_into_chunks is in its loop with two sections in the accumulator,
\* after an earlier chunk was emitted.
C19_Witness ==
    /\ prog = "chunk_paper"
    /\ pc = "pack"
    /\ Len(current_chunk.units) >= 2
    /\ chunks # <<>>
    /\ current_chunk.tokens > SectionTokens(current_chunk.units[2])

\* split_into_chunks has returned sub-slices of several paragraphs each
SubSlicesOfSeveralParagraphs ==
    /\ PaperReturned
    /\ \E j, k \in 1..Len(chunks) :
          /\ j < k
          /\ chunks[j].units = chunks[k].units
          /\ chunks[j].pieces >= 2
          /\ chunks[k].pieces >= 1

\* generate_chunks is in its loop with two files in current_chunk, after a
\* flush.
FilesAccumulated ==
    /\ prog = "analyze_code"
    /\ pc = "gen"
    /\ Len(gen_chunk) >= 2
    /\ chunks # <<>>

====
